---- MODULE Spec2Model ----
(***************************************************************************)
(* Failure-isolation core of coins-for-change-platform:                    *)
(*   src/src/shared/external/circuit_breaker.py  (CircuitBreaker,          *)
(*                                                CircuitBreakerManager)   *)
(*   src/src/shared/external/retry.py            (RetryManager)            *)
(*   src/src/shared/external/monitoring.py       (ServiceMonitor,          *)
(*                                                MonitoringManager)       *)
(*   src/src/shared/external/service_discovery.py (ServiceDiscovery,       *)
(*                                                ServiceRegistry)         *)
(* The breaker is modelled with concurrent call()s (an asyncio task per    *)
(* call, suspended only while the wrapped operation runs), manual          *)
(* overrides scheduled with create_task, and a discrete clock standing for *)
(* time.time().  The monitor and the registry are modelled with their      *)
(* background tasks: a step runs a coroutine from one await that suspends  *)
(* it to the next.                                                         *)
(***************************************************************************)
EXTENDS Integers, Sequences, FiniteSets, Bags, TLC

VARIABLES cfg, cb, now, inflight, pending, started, invocations, overrides,
          lastOutcome, streak, hoSuccesses, rcfg, rs, dl,
          mcfg, metrics, check, running, monitoring_task, loops, stops,
          quiesced, monitors, summary,
          endpoints, cached, health_check_tasks, probes, closing, best,
          rounds, probed, lookups,
          settings, discovered, breakers, instances, got, resets, lastWrite,
          global_alert_handlers, alert_handlers, added, sent

breakerVars == <<cfg, cb, now, inflight, pending, started, invocations,
                 overrides, lastOutcome, streak, hoSuccesses>>

retryVars == <<rcfg, rs, dl>>

monitorVars == <<mcfg, metrics, check, running, monitoring_task, loops,
                 stops, quiesced>>

monitoringVars == <<monitors, summary>>

registryVars == <<endpoints, cached, health_check_tasks, probes, closing,
                  best, rounds, probed, lookups>>

discoveryVars == <<settings, discovered>>

managerVars == <<breakers, instances, got, resets>>

lockVars == <<lastWrite>>

alertVars == <<global_alert_handlers, alert_handlers, added, sent>>

serviceVars == <<monitorVars, monitoringVars, registryVars, discoveryVars,
                 managerVars, lockVars, alertVars>>

\* everything but the ServiceMonitor
notMonitor == <<breakerVars, retryVars, monitoringVars, registryVars,
                discoveryVars, managerVars, lockVars, alertVars>>

\* everything but the MonitoringManager
notMonitoring == <<breakerVars, retryVars, monitorVars, registryVars,
                   discoveryVars, managerVars, lockVars, alertVars>>

\* everything but the ServiceRegistry
notRegistry == <<breakerVars, retryVars, monitorVars, monitoringVars,
                 discoveryVars, managerVars, lockVars, alertVars>>

\* everything but the ServiceDiscovery strategies
notDiscovery == <<breakerVars, retryVars, monitorVars, monitoringVars,
                  registryVars, managerVars, lockVars, alertVars>>

\* everything but the CircuitBreakerManager
notManager == <<breakerVars, retryVars, monitorVars, monitoringVars,
                registryVars, discoveryVars, lockVars, alertVars>>

vars == <<breakerVars, retryVars, serviceVars>>

(* ---------------------------- bounds ----------------------------------- *)
MaxFailMax == 2
MaxResetTimeout == 1
MaxSuccessThreshold == 2
MaxTime == 2
MaxOps == 3
MaxInFlight == 2
MaxRetries == 2
MaxRuns == 2
MaxBaseDelay == 2
MaxMaxDelay == 4
MaxNegDelay == 1
MaxExpBase == 2
MaxAttempt == 3
MaxFailureThreshold == 2
MaxCycles == 3
MaxChecks == 11
MaxLoops == 3
MaxSummaries == 2
MaxEndpoints == 2
MaxProbes == 2
MaxLookups == 2
MaxCloses == 1
MaxRounds == 2
MaxOverlap == 2
MaxManagedCalls == 3
MaxGets == 2
MaxResets == 1
MaxHandlers == 2
MaxAlerts == 2

(* ------------------------- error kinds --------------------------------- *)
\* Exception classes that the wrapped operations raise; every class derives
\* from Exception.
BreakerKinds == {"Exception", "BusinessError"}
RetryKinds == {"ConnectionError", "NonRetryableError"}

\* isinstance(exception, exc_type) over the classes above
IsInstance(kind, excType) == kind = excType \/ excType = "Exception"

(* ------------------------- CircuitBreaker ------------------------------ *)
CLOSED == "closed"
OPEN == "open"
HALF_OPEN == "half_open"
CircuitBreakerState == {CLOSED, OPEN, HALF_OPEN}

\* Optional[float] None of _last_failure_time
NoTime == -1

\* CircuitBreaker.__init__: the state-tracking and metrics fields
NewBreaker ==
    [state |-> CLOSED, fail_counter |-> 0, success_counter |-> 0,
     last_failure_time |-> NoTime, total_requests |-> 0,
     total_failures |-> 0, total_successes |-> 0, state_changes |-> 0]

\* _should_attempt_reset comparing with > instead of >=
ShouldAttemptReset_Strict(b, t) ==
    /\ b.state = OPEN
    /\ b.last_failure_time # NoTime
    /\ t - b.last_failure_time > cfg.reset_timeout

\* CircuitBreaker._should_attempt_reset
ShouldAttemptReset(b, t) ==
    IF b.state # OPEN THEN FALSE
    ELSE IF b.last_failure_time = NoTime THEN FALSE
    ELSE t - b.last_failure_time >= cfg.reset_timeout

\* CircuitBreaker._is_excluded_exception
IsExcludedException(kind) ==
    \E excType \in cfg.excluded_exceptions : IsInstance(kind, excType)

\* _change_state keeping the counters when the breaker closes
ChangeState_NoResetOnClose(b, newState) ==
    LET b1 == [b EXCEPT !.state = newState,
                        !.state_changes = b.state_changes + 1]
    IN  IF b.state # newState /\ newState = HALF_OPEN
        THEN [b1 EXCEPT !.success_counter = 0]
        ELSE b1

\* _change_state resetting both counters whatever the new state is
ChangeState_ResetsBothAlways(b, newState) ==
    LET b1 == [b EXCEPT !.state = newState,
                        !.state_changes = b.state_changes + 1]
    IN  IF b.state # newState
        THEN [b1 EXCEPT !.fail_counter = 0, !.success_counter = 0]
        ELSE b1

\* CircuitBreaker._change_state
ChangeState(b, newState) ==
    LET b1 == [b EXCEPT !.state = newState,
                        !.state_changes = b.state_changes + 1]
    IN  IF b.state # newState
        THEN IF newState = CLOSED
             THEN [b1 EXCEPT !.fail_counter = 0, !.success_counter = 0]
             ELSE IF newState = HALF_OPEN
             THEN [b1 EXCEPT !.success_counter = 0]
             ELSE b1
        ELSE b1

\* _on_success closing the breaker on a success recorded while it is OPEN
OnSuccess_ClosesWhenOpen(b) ==
    LET b1 == [b EXCEPT !.total_requests = b.total_requests + 1,
                        !.total_successes = b.total_successes + 1]
    IN  IF b1.state = HALF_OPEN
        THEN LET b2 == [b1 EXCEPT !.success_counter = b1.success_counter + 1]
             IN  IF b2.success_counter >= cfg.success_threshold
                 THEN ChangeState(b2, CLOSED)
                 ELSE b2
        ELSE IF b1.state = CLOSED
        THEN [b1 EXCEPT !.fail_counter = 0]
        ELSE ChangeState(b1, CLOSED)

\* _on_success closing the breaker only above the threshold (> for >=)
OnSuccess_AboveThreshold(b) ==
    LET b1 == [b EXCEPT !.total_requests = b.total_requests + 1,
                        !.total_successes = b.total_successes + 1]
    IN  IF b1.state = HALF_OPEN
        THEN LET b2 == [b1 EXCEPT !.success_counter = b1.success_counter + 1]
             IN  IF b2.success_counter > cfg.success_threshold
                 THEN ChangeState(b2, CLOSED)
                 ELSE b2
        ELSE IF b1.state = CLOSED
        THEN [b1 EXCEPT !.fail_counter = 0]
        ELSE b1

\* CircuitBreaker._on_success
OnSuccess(b) ==
    LET b1 == [b EXCEPT !.total_requests = b.total_requests + 1,
                        !.total_successes = b.total_successes + 1]
    IN  IF b1.state = HALF_OPEN
        THEN LET b2 == [b1 EXCEPT !.success_counter = b1.success_counter + 1]
             IN  IF b2.success_counter >= cfg.success_threshold
                 THEN ChangeState(b2, CLOSED)
                 ELSE b2
        ELSE IF b1.state = CLOSED
        THEN [b1 EXCEPT !.fail_counter = 0]
        ELSE b1

\* _on_failure opening the breaker only above fail_max (> for >=)
OnFailure_AboveFailMax(b, kind, t) ==
    IF IsExcludedException(kind) THEN b
    ELSE LET b1 == [b EXCEPT !.total_requests = b.total_requests + 1,
                             !.total_failures = b.total_failures + 1,
                             !.last_failure_time = t]
         IN  IF b1.state = CLOSED
             THEN LET b2 == [b1 EXCEPT !.fail_counter = b1.fail_counter + 1]
                  IN  IF b2.fail_counter > cfg.fail_max
                      THEN ChangeState(b2, OPEN)
                      ELSE b2
             ELSE IF b1.state = HALF_OPEN
             THEN ChangeState(b1, OPEN)
             ELSE b1

\* _on_failure with the totals counted before the exclusion check
OnFailure_CountsExcluded(b, kind, t) ==
    LET b1 == [b EXCEPT !.total_requests = b.total_requests + 1,
                        !.total_failures = b.total_failures + 1]
    IN  IF IsExcludedException(kind) THEN b1
        ELSE LET b2 == [b1 EXCEPT !.last_failure_time = t]
             IN  IF b2.state = CLOSED
                 THEN LET b3 == [b2 EXCEPT !.fail_counter = b2.fail_counter + 1]
                      IN  IF b3.fail_counter >= cfg.fail_max
                          THEN ChangeState(b3, OPEN)
                          ELSE b3
                 ELSE IF b2.state = HALF_OPEN
                 THEN ChangeState(b2, OPEN)
                 ELSE b2

\* CircuitBreaker._on_failure
OnFailure(b, kind, t) ==
    IF IsExcludedException(kind) THEN b
    ELSE LET b1 == [b EXCEPT !.total_requests = b.total_requests + 1,
                             !.total_failures = b.total_failures + 1,
                             !.last_failure_time = t]
         IN  IF b1.state = CLOSED
             THEN LET b2 == [b1 EXCEPT !.fail_counter = b1.fail_counter + 1]
                  IN  IF b2.fail_counter >= cfg.fail_max
                      THEN ChangeState(b2, OPEN)
                      ELSE b2
             ELSE IF b1.state = HALF_OPEN
             THEN ChangeState(b1, OPEN)
             ELSE b1

\* the lock section of call() making the transition to HALF_OPEN again
\* for every caller that finds the breaker HALF_OPEN
Admission_EveryCallerResets(b, t) ==
    IF ShouldAttemptReset(b, t) \/ b.state = HALF_OPEN
    THEN ChangeState(b, HALF_OPEN) ELSE b

\* the lock section of call() counting a rejected call as a request
Admission_CountsRejected(b, t) ==
    IF ShouldAttemptReset(b, t) THEN ChangeState(b, HALF_OPEN)
    ELSE IF b.state = OPEN
    THEN [b EXCEPT !.total_requests = b.total_requests + 1]
    ELSE b

\* CircuitBreaker.call, the section under the lock: the breaker after the
\* reset check.  The call is rejected iff the result is OPEN.
Admission(b, t) ==
    IF ShouldAttemptReset(b, t) THEN ChangeState(b, HALF_OPEN) ELSE b

\* The coroutines that write the fields of the breaker inside
\* `async with self._lock`; _change_state takes no lock itself
UnderLock(coroutine) == coroutine \in {"call", "_on_success", "_on_failure"}

\* a write to the fields of the breaker made by the coroutine
WriteBy(coroutine) == [by |-> coroutine, locked |-> UnderLock(coroutine)]

\* nothing has written the fields since __init__
NoWrite == [by |-> "__init__", locked |-> TRUE]

(* ------------------------ calls in flight ------------------------------ *)
\* inflight is the bag of the call()s suspended in the wrapped operation,
\* one record each:
\*   pre      the breaker as it was when call() was entered
\*   viaReset the call performed the OPEN -> HALF_OPEN transition
\*   alone    nothing else touched the breaker since the call was entered
InFlight == BagToSet(inflight)

NoneInFlight == InFlight = {}

\* call() and the manual overrides started so far
Ops == started + overrides

Put(B, c) == B (+) SetToBag({c})
Take(B, c) == B (-) SetToBag({c})

NoOutcome == [result |-> "none", kind |-> "none", pre |-> NewBreaker,
              alone |-> FALSE, viaReset |-> FALSE]

\* every call in flight has seen the breaker touched
Disturbed(B) ==
    LET Count(c) == IF c \in BagToSet(B) THEN B[c] ELSE 0
    IN  [d \in {[c EXCEPT !.alone = FALSE] : c \in BagToSet(B)} |->
            Count(d) + Count([d EXCEPT !.alone = TRUE])]

\* successes recorded since the breaker entered HALF_OPEN
HoAfter(b0, b1, inc) ==
    IF b0.state = HALF_OPEN /\ b1.state = HALF_OPEN
    THEN hoSuccesses + inc ELSE 0

(* --------------------------- RetryManager ------------------------------ *)
\* Delays are computed in tenths of the configured unit, so that the
\* +-10% jitter of an integer delay is an integer.
DelayScale == 10

Min(a, b) == IF a <= b THEN a ELSE b
Max(a, b) == IF a >= b THEN a ELSE b

\* Python's ** for a non-negative integer exponent (x ** 0 = 1, also for x = 0)
RECURSIVE Pow(_, _)
Pow(x, n) == IF n = 0 THEN 1 ELSE x * Pow(x, n - 1)

\* random.uniform(-jitter_amount, jitter_amount): the two ends and the middle
JitterChoices == {-1, 0, 1}

\* _calculate_delay without the cap at max_delay
CalculateDelay_NoCap(attempt, j) ==
    LET backoff == rcfg.base_delay * Pow(rcfg.exponential_base, attempt)
        jittered == IF rcfg.jitter
                    THEN DelayScale * backoff + j * backoff
                    ELSE DelayScale * backoff
    IN  Max(0, jittered)

\* RetryManager._calculate_delay; j is the draw of random.uniform
CalculateDelay(attempt, j) ==
    LET backoff == rcfg.base_delay * Pow(rcfg.exponential_base, attempt)
        capped == Min(backoff, rcfg.max_delay)
        jittered == IF rcfg.jitter
                    THEN DelayScale * capped + j * capped
                    ELSE DelayScale * capped
    IN  Max(0, jittered)

\* RetryManager._should_retry
ShouldRetry(kind) ==
    \E excType \in rcfg.retryable_exceptions : IsInstance(kind, excType)

NoException == [kind |-> "None", inv |-> 0]
NoResult == [result |-> "none", attempts |-> 0, last_exception |-> NoException]

\* One run of execute_with_retry.
\*   pc             idle, invoking (func is running), sleeping (asyncio.sleep),
\*                  returned, raised (RetryError)
\*   attempt        the loop variable
\*   last_exception the exception kept by the except clause, tagged with the
\*                  number of the invocation that raised it
\*   invocations, errors, sleeps, runs   what the run has done so far
IdleRun ==
    [pc |-> "idle", attempt |-> 0, last_exception |-> NoException,
     invocations |-> 0, errors |-> <<>>, sleeps |-> <<>>,
     outcome |-> NoResult, runs |-> 0]

\* execute_with_retry: entry, first iteration of the loop, func is called
RetryBegin(r) ==
    [IdleRun EXCEPT !.pc = "invoking", !.invocations = 1, !.runs = r.runs + 1]

\* execute_with_retry: func returned
RetryReturn(r) ==
    [r EXCEPT !.pc = "returned",
              !.outcome = [NoResult EXCEPT !.result = "returned"]]

\* the except clause giving up one attempt early (range(max_retries))
RetryRaise_OneAttemptShort(r, kind, j) ==
    LET e == [kind |-> kind, inv |-> r.invocations]
        r1 == [r EXCEPT !.last_exception = e, !.errors = Append(r.errors, kind)]
    IN  IF r.attempt + 1 >= rcfg.max_retries \/ ~ShouldRetry(kind)
        THEN [r1 EXCEPT !.pc = "raised",
                        !.outcome = [result |-> "RetryError",
                                     attempts |-> rcfg.max_retries + 1,
                                     last_exception |-> e]]
        ELSE [r1 EXCEPT !.pc = "sleeping",
                        !.sleeps = Append(r.sleeps,
                                      [attempt |-> r.attempt,
                                       before |-> r.invocations + 1,
                                       delay |-> CalculateDelay(r.attempt, j)])]

\* the except clause computing the delay with the index of the attempt
\* that follows the sleep
RetryRaise_DelayOfNextAttempt(r, kind, j) ==
    LET e == [kind |-> kind, inv |-> r.invocations]
        r1 == [r EXCEPT !.last_exception = e, !.errors = Append(r.errors, kind)]
    IN  IF r.attempt = rcfg.max_retries \/ ~ShouldRetry(kind)
        THEN [r1 EXCEPT !.pc = "raised",
                        !.outcome = [result |-> "RetryError",
                                     attempts |-> rcfg.max_retries + 1,
                                     last_exception |-> e]]
        ELSE [r1 EXCEPT !.pc = "sleeping",
                        !.sleeps = Append(r.sleeps,
                                      [attempt |-> r.attempt + 1,
                                       before |-> r.invocations + 1,
                                       delay |->
                                           CalculateDelay(r.attempt + 1, j)])]

\* execute_with_retry: func raised; the except clause, then either the
\* RetryError after the loop or the backoff sleep
RetryRaise(r, kind, j) ==
    LET e == [kind |-> kind, inv |-> r.invocations]
        r1 == [r EXCEPT !.last_exception = e, !.errors = Append(r.errors, kind)]
    IN  IF r.attempt = rcfg.max_retries \/ ~ShouldRetry(kind)
        THEN [r1 EXCEPT !.pc = "raised",
                        !.outcome = [result |-> "RetryError",
                                     attempts |-> rcfg.max_retries + 1,
                                     last_exception |-> e]]
        ELSE [r1 EXCEPT !.pc = "sleeping",
                        !.sleeps = Append(r.sleeps,
                                      [attempt |-> r.attempt,
                                       before |-> r.invocations + 1,
                                       delay |-> CalculateDelay(r.attempt, j)])]

\* execute_with_retry: the sleep is over, next iteration, func is called
RetryWake(r) ==
    [r EXCEPT !.pc = "invoking", !.attempt = r.attempt + 1,
              !.invocations = r.invocations + 1]

RetryConfigs ==
    [max_retries : 0..MaxRetries,
     base_delay : (0 - MaxNegDelay)..MaxBaseDelay,
     max_delay : (0 - MaxNegDelay)..MaxMaxDelay,
     exponential_base : 0..MaxExpBase,
     jitter : BOOLEAN,
     retryable_exceptions : {{"Exception"}, {"ConnectionError"}}]

\* RetryManager.__init__ defaults, with the bounds of the model for the delays
DefaultRetryConfig ==
    [max_retries |-> MaxRetries, base_delay |-> 1, max_delay |-> MaxMaxDelay,
     exponential_base |-> 2, jitter |-> FALSE,
     retryable_exceptions |-> {"Exception"}]

NoDelay == [attempt |-> -1, delay |-> 0, prev |-> 0, j |-> 0]

RetryIdle ==
    /\ rcfg = DefaultRetryConfig
    /\ rs = IdleRun
    /\ dl = NoDelay

(* --------------------------- ServiceMonitor ---------------------------- *)
\* What health_check_func hands back: a dict with a status entry, a dict
\* without one, a bool, or anything else (None)
CheckResults ==
    {"dict_healthy", "dict_unhealthy", "dict_no_status", "true", "false",
     "none"}

\* _perform_health_check: is_healthy from the result, by its type
IsHealthyResult(result) ==
    IF result \in {"dict_healthy", "dict_unhealthy", "dict_no_status"}
    THEN result = "dict_healthy"
    ELSE IF result \in {"true", "false"}
    THEN result = "true"
    ELSE TRUE

\* The alerts of _perform_health_check, by severity and the fixed part of
\* the message
ResponseTimeAlert == [severity |-> "warning", message |-> "Response time"]
ThresholdAlert == [severity |-> "error", message |-> "Service unhealthy for"]
BecameUnhealthyAlert ==
    [severity |-> "error", message |-> "Service became unhealthy"]
RecoveredAlert == [severity |-> "info", message |-> "Service recovered"]
ErrorRateAlert == [severity |-> "warning", message |-> "Error rate"]
HealthCheckFailedAlert ==
    [severity |-> "error", message |-> "Health check failed"]

\* the error-rate check runs only above this many requests
ErrorRateMinRequests == 10

\* error_rate_threshold (0.1 by default) in percent
DefaultErrorRatePercent == 10

\* ServiceMetrics, the counters and the health flag
NewMetrics ==
    [is_healthy |-> TRUE, error_count |-> 0, success_count |-> 0,
     consecutive_failures |-> 0]

\* ServiceMetrics.total_requests
TotalRequests(m) == m.error_count + m.success_count

\* error_rate > error_rate_threshold, over integers
ErrorRateExceeds(m, c) ==
    IF TotalRequests(m) = 0 THEN 0 > c.error_rate_percent
    ELSE m.error_count * 100 > c.error_rate_percent * TotalRequests(m)

\* the try block sending "Service recovered" in every healthy cycle
HealthCheckReturns_RecoveredEveryCycle(m, c, result, slow) ==
    LET is_healthy == IsHealthyResult(result)
        m1 == IF is_healthy
              THEN [m EXCEPT !.success_count = m.success_count + 1,
                             !.consecutive_failures = 0]
              ELSE [m EXCEPT !.error_count = m.error_count + 1,
                             !.consecutive_failures =
                                 m.consecutive_failures + 1]
        a1 == IF is_healthy
              THEN IF slow THEN <<ResponseTimeAlert>> ELSE <<>>
              ELSE IF m1.consecutive_failures >= c.failure_threshold
              THEN <<ThresholdAlert>> ELSE <<>>
        was_healthy == m1.is_healthy
        m2 == [m1 EXCEPT !.is_healthy = is_healthy]
        a2 == IF was_healthy /\ ~is_healthy THEN <<BecameUnhealthyAlert>>
              ELSE IF is_healthy THEN <<RecoveredAlert>>
              ELSE <<>>
        a3 == IF TotalRequests(m2) > ErrorRateMinRequests
                 /\ ErrorRateExceeds(m2, c)
              THEN <<ErrorRateAlert>> ELSE <<>>
    IN  [metrics |-> m2, alerts |-> a1 \o a2 \o a3, raised |-> FALSE,
         returned |-> is_healthy]

\* _perform_health_check, the try block: health_check_func returned result;
\* slow says that the response time is above response_time_threshold
HealthCheckReturns(m, c, result, slow) ==
    LET is_healthy == IsHealthyResult(result)
        m1 == IF is_healthy
              THEN [m EXCEPT !.success_count = m.success_count + 1,
                             !.consecutive_failures = 0]
              ELSE [m EXCEPT !.error_count = m.error_count + 1,
                             !.consecutive_failures =
                                 m.consecutive_failures + 1]
        a1 == IF is_healthy
              THEN IF slow THEN <<ResponseTimeAlert>> ELSE <<>>
              ELSE IF m1.consecutive_failures >= c.failure_threshold
              THEN <<ThresholdAlert>> ELSE <<>>
        was_healthy == m1.is_healthy
        m2 == [m1 EXCEPT !.is_healthy = is_healthy]
        a2 == IF was_healthy /\ ~is_healthy THEN <<BecameUnhealthyAlert>>
              ELSE IF ~was_healthy /\ is_healthy THEN <<RecoveredAlert>>
              ELSE <<>>
        a3 == IF TotalRequests(m2) > ErrorRateMinRequests
                 /\ ErrorRateExceeds(m2, c)
              THEN <<ErrorRateAlert>> ELSE <<>>
    IN  [metrics |-> m2, alerts |-> a1 \o a2 \o a3, raised |-> FALSE,
         returned |-> is_healthy]

\* the except clause leaving consecutive_failures as it was
HealthCheckRaises_KeepsStreak(m) ==
    [metrics |-> [m EXCEPT !.error_count = m.error_count + 1,
                           !.is_healthy = FALSE],
     alerts |-> <<HealthCheckFailedAlert>>,
     raised |-> TRUE, returned |-> FALSE]

\* the except clause also sending the status-change alert
HealthCheckRaises_AlsoBecameUnhealthy(m) ==
    [metrics |-> [m EXCEPT !.error_count = m.error_count + 1,
                           !.consecutive_failures = m.consecutive_failures + 1,
                           !.is_healthy = FALSE],
     alerts |-> IF m.is_healthy
                THEN <<HealthCheckFailedAlert, BecameUnhealthyAlert>>
                ELSE <<HealthCheckFailedAlert>>,
     raised |-> TRUE, returned |-> FALSE]

\* _perform_health_check, the except clause: health_check_func raised
HealthCheckRaises(m) ==
    [metrics |-> [m EXCEPT !.error_count = m.error_count + 1,
                           !.consecutive_failures = m.consecutive_failures + 1,
                           !.is_healthy = FALSE],
     alerts |-> <<HealthCheckFailedAlert>>,
     raised |-> TRUE, returned |-> FALSE]

\* Outcome of the latest _perform_health_check and its number;
\* prev_raised says that the call before it ended in the except clause
NoCheck ==
    [cycle |-> 0, raised |-> FALSE, returned |-> TRUE, alerts |-> <<>>,
     prev_raised |-> FALSE]

\* the outcome r of _perform_health_check, recorded after the outcome c
Checked(c, r) ==
    [cycle |-> c.cycle + 1, raised |-> r.raised, returned |-> r.returned,
     alerts |-> r.alerts, prev_raised |-> c.raised]

\* Optional[asyncio.Task] None of _monitoring_task
NoTask == 0

MonitorConfigs ==
    [failure_threshold : 1..MaxFailureThreshold,
     error_rate_percent : {DefaultErrorRatePercent}]

\* ServiceMonitor.__init__ defaults, failure_threshold within the bounds
DefaultMonitorConfig ==
    [failure_threshold |-> MaxFailureThreshold,
     error_rate_percent |-> DefaultErrorRatePercent]

\* ServiceMonitor.__init__: nothing is monitored yet.
\*   loops     the tasks created for _monitoring_loop, by number: alive,
\*             cancelled (cancel() requested, CancelledError not yet
\*             delivered) or done
\*   stops     the stop_monitoring calls suspended in `await task`
\*   quiesced  a stop_monitoring has returned and start_monitoring was not
\*             called since that stop was entered
MonitorFresh ==
    /\ metrics = NewMetrics
    /\ check = NoCheck
    /\ running = FALSE
    /\ monitoring_task = NoTask
    /\ loops = <<>>
    /\ stops = {}
    /\ quiesced = FALSE

MonitorIdle == mcfg = DefaultMonitorConfig /\ MonitorFresh

(* -------------------------- MonitoringManager -------------------------- *)
\* services of setup_default_monitoring that the model registers
MonitorNames == {"database", "redis"}

\* an empty dict
EmptyDict == [n \in {} |-> {}]

\* d[key] = value
DictSet(d, key, value) ==
    [n \in DOMAIN d \cup {key} |-> IF n = key THEN value ELSE d[n]]

\* get_health_summary reporting "healthy" as soon as one monitor is healthy
HealthSummary_AnyHealthy(ms) ==
    LET total_services == Cardinality(DOMAIN ms)
        healthy_services ==
            Cardinality({n \in DOMAIN ms : ms[n].metrics.is_healthy})
    IN  [total_services |-> total_services,
         healthy_services |-> healthy_services,
         unhealthy_services |-> total_services - healthy_services,
         overall_health |-> IF healthy_services > 0 \/ total_services = 0
                            THEN "healthy" ELSE "degraded",
         health_percentage |-> [num |-> healthy_services * 100,
                                den |-> Max(total_services, 1)]]

\* MonitoringManager.get_health_summary; health_percentage is kept as the
\* fraction num / den
HealthSummary(ms) ==
    LET total_services == Cardinality(DOMAIN ms)
        healthy_services ==
            Cardinality({n \in DOMAIN ms : ms[n].metrics.is_healthy})
    IN  [total_services |-> total_services,
         healthy_services |-> healthy_services,
         unhealthy_services |-> total_services - healthy_services,
         overall_health |-> IF healthy_services = total_services
                            THEN "healthy" ELSE "degraded",
         health_percentage |-> [num |-> healthy_services * 100,
                                den |-> Max(total_services, 1)]]

\* the latest summary handed out and the number of summaries so far
NoSummary == [taken |-> 0, report |-> HealthSummary(EmptyDict)]

\* MonitoringManager.__init__
MonitoringIdle ==
    /\ monitors = EmptyDict
    /\ summary = NoSummary

\* alert handler objects that callers register, and the LogAlertHandler
\* that ServiceMonitor.__init__ adds
AlertHandlers == {"h1", "h2"}
LogHandler == "log"

\* ServiceMonitor._send_alert giving up at the first handler that raises
SendAlert_StopsAtRaise(hs, raising) ==
    LET failing == {i \in 1..Len(hs) : hs[i] \in raising}
        last == IF failing = {} THEN Len(hs)
                ELSE CHOOSE i \in failing : \A j \in failing : i <= j
    IN  [received |-> SubSeq(hs, 1, last),
         errors |-> IF failing = {} THEN 0 ELSE 1]

\* ServiceMonitor._send_alert over the list hs of handlers: handle_alert is
\* awaited on each in turn, and the exception of a handler in raising is
\* logged
SendAlert(hs, raising) ==
    [received |-> hs,
     errors |-> Cardinality({i \in 1..Len(hs) : hs[i] \in raising})]

\* no alert has been sent
NoAlert == [count |-> 0, monitor |-> "none", received |-> <<>>,
            raising |-> {}, errors |-> 0]

\* MonitoringManager.__init__, the handlers:
\*   global_alert_handlers  _global_alert_handlers
\*   alert_handlers         alert_handlers of each monitor of _monitors
\*   added                  the handlers passed to add_alert_handler of
\*                          each monitor by its owner
\*   sent                   the latest _send_alert and the handlers whose
\*                          handle_alert it awaited, in order
AlertsIdle ==
    /\ global_alert_handlers = <<>>
    /\ alert_handlers = EmptyDict
    /\ added = EmptyDict
    /\ sent = NoAlert

(* --------------------------- ServiceRegistry --------------------------- *)
\* services looked up in the registry
RegistryServices == {"redis", "database"}

\* ServiceEndpoint.weight is an int; the weights the model hands out
Weights == {-1, 0, 1, 3}

\* ServiceEndpoint.__init__: healthy until a probe says otherwise
NewEndpoint(weight) == [weight |-> weight, healthy |-> TRUE]

RECURSIVE SeqsUpTo(_, _)
SeqsUpTo(S, n) ==
    IF n = 0 THEN {<<>>}
    ELSE LET shorter == SeqsUpTo(S, n - 1)
         IN  shorter \cup {Append(q, x) : q \in shorter, x \in S}

\* indexes of the healthy endpoints of a list, in list order
RECURSIVE HealthyIndexes(_, _)
HealthyIndexes(eps, i) ==
    IF i > Len(eps) THEN <<>>
    ELSE IF eps[i].healthy THEN <<i>> \o HealthyIndexes(eps, i + 1)
    ELSE HealthyIndexes(eps, i + 1)

RECURSIVE SumWeights(_, _)
SumWeights(eps, idx) ==
    IF idx = <<>> THEN 0
    ELSE eps[Head(idx)].weight + SumWeights(eps, Tail(idx))

\* Python's max(list, key=weight): the first element of greatest weight
RECURSIVE MaxByWeight(_, _)
MaxByWeight(eps, idx) ==
    IF Len(idx) = 1 THEN Head(idx)
    ELSE LET rest == MaxByWeight(eps, Tail(idx))
         IN  IF eps[Head(idx)].weight >= eps[rest].weight
             THEN Head(idx) ELSE rest

\* get_best_endpoint returning None
NoEndpoint == 0

\* get_best_endpoint after get_healthy_endpoints: the index of the endpoint
\* returned, in the cached list eps
BestEndpoint(eps) ==
    LET healthy_endpoints == HealthyIndexes(eps, 1)
    IN  IF healthy_endpoints = <<>> THEN NoEndpoint
        ELSE IF SumWeights(eps, healthy_endpoints) = 0
        THEN Head(healthy_endpoints)
        ELSE MaxByWeight(eps, healthy_endpoints)

\* close() is not running; returned counts the close() calls that are over
NotClosing == [pc |-> "idle", awaited |-> {}, returned |-> 0]

NoBest == [lookups |-> 0, service |-> "none", index |-> NoEndpoint]

NoRound == [service |-> "none", results |-> <<>>, before |-> <<>>]

NoLookups == [s \in RegistryServices |-> [pending |-> 0, called |-> FALSE]]

\* ServiceRegistry.__init__ over a ServiceDiscovery that hands out the
\* lists of endpoint objects held in endpoints.
\*   cached             the keys of _endpoints_cache; the list cached for
\*                      a service is the list object of the discovery
\*   health_check_tasks the dict of the same name, service -> task number
\*   probes             the tasks created for _health_check_loop, by
\*                      number: alive, cancelled or done
\*   rounds             the probe rounds counted so far
\*   probed             the latest counted round: its service, the results
\*                      of its probes and the endpoints as they were
\*   lookups            per service, the get_healthy_endpoints calls
\*                      suspended in _refresh_endpoints and whether the
\*                      service was ever asked for
RegistryFresh ==
    /\ cached = {}
    /\ health_check_tasks = EmptyDict
    /\ probes = <<>>
    /\ closing = NotClosing
    /\ best = NoBest
    /\ rounds = 0
    /\ probed = NoRound
    /\ lookups = NoLookups

RegistryIdle ==
    /\ endpoints = [s \in RegistryServices |-> <<NewEndpoint(1)>>]
    /\ RegistryFresh

(* --------------------------- ServiceDiscovery -------------------------- *)
\* service names asked for; the last one is known to neither strategy
DiscoveryNames ==
    {"database", "postgres", "redis", "opensearch", "elasticsearch",
     "payments"}

\* the services read from the settings by _load_static_endpoints
StaticNames == {"database", "redis", "opensearch"}

\* urlparse(url).port is None
NoPort == 0

\* a port written in a settings URL
CustomPort == 7000

\* urlparse(url).hostname is None
NoHost == "None"

\* the settings URLs after urlparse: hostname and port of each service
SettingsChoices ==
    [StaticNames -> [hostname : {NoHost, "localhost"},
                     port : {NoPort, CustomPort}]]

\* _load_static_endpoints: `port or <default>`
StaticDefaultPort(name) ==
    IF name = "database" THEN 5432
    ELSE IF name = "redis" THEN 6379
    ELSE 9200

\* _load_static_endpoints: the scheme of the URL, without "+asyncpg"
StaticScheme(name) ==
    IF name = "database" THEN "postgresql"
    ELSE IF name = "redis" THEN "redis"
    ELSE "http"

\* StaticServiceDiscovery._load_static_endpoints
LoadStaticEndpoints(st) ==
    [name \in {n \in StaticNames : st[n].hostname # NoHost} |->
        <<[host |-> st[name].hostname,
           port |-> IF st[name].port # NoPort THEN st[name].port
                    ELSE StaticDefaultPort(name),
           scheme |-> StaticScheme(name)]>>]

\* StaticServiceDiscovery.discover_endpoints
StaticDiscover(st, name) ==
    LET static_endpoints == LoadStaticEndpoints(st)
    IN  [raised |-> "None",
         endpoints |-> IF name \in DOMAIN static_endpoints
                       THEN static_endpoints[name] ELSE <<>>]

\* KubernetesServiceDiscovery.discover_endpoints: default_ports.get(name, 80)
KubernetesDefaultPort(name) ==
    IF name \in {"database", "postgres"} THEN 5432
    ELSE IF name = "redis" THEN 6379
    ELSE IF name \in {"opensearch", "elasticsearch"} THEN 9200
    ELSE 80

\* socket.getaddrinfo raised
ResolutionFailed == <<>>

\* what socket.getaddrinfo resolves a service name to: nothing (it raised)
\* or the addresses, in the order in which the set of them is iterated
Resolutions ==
    {ResolutionFailed, <<"10.0.0.1">>, <<"10.0.0.1", "10.0.0.2">>,
     <<"10.0.0.2", "10.0.0.1">>}

\* KubernetesServiceDiscovery.discover_endpoints.  default_ports is a local
\* name assigned inside the try block after getaddrinfo; the except clause
\* reads it, and reading a local name that was never assigned raises
\* UnboundLocalError out of the except clause.
KubernetesDiscover(name, ips) ==
    LET resolved == ips # ResolutionFailed
        default_ports_assigned == resolved
    IN  IF resolved
        THEN [raised |-> "None",
              endpoints |-> [i \in 1..Len(ips) |->
                                [host |-> ips[i],
                                 port |-> KubernetesDefaultPort(name),
                                 scheme |-> "http"]]]
        ELSE IF default_ports_assigned
        THEN [raised |-> "None",
              endpoints |-> <<[host |-> name,
                               port |-> KubernetesDefaultPort(name),
                               scheme |-> "http"]>>]
        ELSE [raised |-> "UnboundLocalError", endpoints |-> <<>>]

\* the latest discover_endpoints call and what came of it
NoDiscovery ==
    [strategy |-> "none", name |-> "none", ips |-> ResolutionFailed,
     raised |-> "None", endpoints |-> <<>>]

DefaultSettings ==
    [n \in StaticNames |-> [hostname |-> "localhost", port |-> NoPort]]

DiscoveryIdle ==
    /\ settings = DefaultSettings
    /\ discovered = NoDiscovery

(* ------------------------ CircuitBreakerManager ------------------------ *)
BreakerNames == {"redis", "database"}

\* an argument of get_breaker: None, or a value
NoArg == <<>>
Given(v) == <<v>>

\* CircuitBreakerManager._default_config
ManagerDefaultConfig ==
    [fail_max |-> 5, reset_timeout |-> 60, success_threshold |-> 1,
     excluded_exceptions |-> {}]

\* the arguments of get_breaker after name: each left out or given
ManagerArgs ==
    [fail_max : {NoArg, Given(1), Given(MaxFailMax)},
     reset_timeout : {NoArg, Given(MaxResetTimeout)},
     success_threshold : {NoArg, Given(MaxSuccessThreshold)},
     excluded_exceptions : {NoArg, Given({"BusinessError"})}]

NoArgs == [f \in DOMAIN ManagerDefaultConfig |-> NoArg]

\* get_breaker: the defaults overridden by the arguments that are not None
ConfigFrom(args) ==
    [f \in DOMAIN ManagerDefaultConfig |->
        IF args[f] # NoArg THEN args[f][1] ELSE ManagerDefaultConfig[f]]

\* get_breaker building a new breaker whenever the arguments differ from
\* the configuration of the registered one
GetOrCreate_LastConfigWins(bs, name, args, n) ==
    IF name \notin DOMAIN bs \/ bs[name].config # ConfigFrom(args)
    THEN DictSet(bs, name, [instance |-> n + 1, config |-> ConfigFrom(args),
                            b |-> NewBreaker])
    ELSE bs

\* get_breaker: the dict _breakers after the call; n CircuitBreaker objects
\* exist so far
GetOrCreate(bs, name, args, n) ==
    IF name \notin DOMAIN bs
    THEN DictSet(bs, name, [instance |-> n + 1, config |-> ConfigFrom(args),
                            b |-> NewBreaker])
    ELSE bs

\* the latest get_breaker call and the object it returned
\*   same_config  the arguments ask for the configuration the breaker has
\*   calls        the get_breaker calls so far
NoBreaker ==
    [calls |-> 0, name |-> "none", instance |-> 0, same_config |-> TRUE]

\* _breakers.values(): the names in the order in which they were registered
RECURSIVE InOrder(_, _)
InOrder(bs, names) ==
    IF names = {} THEN <<>>
    ELSE LET first == CHOOSE n \in names :
                          \A m \in names : bs[n].instance <= bs[m].instance
         IN  <<first>> \o InOrder(bs, names \ {first})

\* the tasks of reset_all closing only the breakers that are OPEN
RECURSIVE RunCloseTasks_OnlyOpen(_, _)
RunCloseTasks_OnlyOpen(bs, names) ==
    IF names = <<>> THEN bs
    ELSE RunCloseTasks_OnlyOpen(
             [bs EXCEPT ![Head(names)].b =
                 IF bs[Head(names)].b.state = OPEN
                 THEN ChangeState(bs[Head(names)].b, CLOSED)
                 ELSE bs[Head(names)].b],
             Tail(names))

\* the tasks that reset_all created, one _change_state(CLOSED) for each
\* name of the list, run in the order of their creation
RECURSIVE RunCloseTasks(_, _)
RunCloseTasks(bs, names) ==
    IF names = <<>> THEN bs
    ELSE RunCloseTasks(
             [bs EXCEPT ![Head(names)].b =
                 ChangeState(bs[Head(names)].b, CLOSED)],
             Tail(names))

\* reset_all and its tasks:
\*   calls       the reset_all calls so far
\*   scheduled   the names whose close task is created and has not run
\*   done        the batches of close tasks that have run
\*   closed_from the states in which the latest batch found its breakers
NoResets == [calls |-> 0, scheduled |-> <<>>, done |-> 0, closed_from |-> {}]

\* CircuitBreakerManager.__init__
ManagerIdle ==
    /\ breakers = EmptyDict
    /\ instances = 0
    /\ got = NoBreaker
    /\ resets = NoResets

ServicesIdle ==
    /\ MonitorIdle
    /\ MonitoringIdle
    /\ RegistryIdle
    /\ DiscoveryIdle
    /\ ManagerIdle
    /\ AlertsIdle

(* ------------------------------ Init ----------------------------------- *)
BreakerConfigs ==
    [fail_max : 1..MaxFailMax,
     reset_timeout : 0..MaxResetTimeout,
     success_threshold : 1..MaxSuccessThreshold,
     excluded_exceptions : {{}, {"BusinessError"}}]

\* CircuitBreaker.__init__, apart from the configuration
BreakerFresh ==
    /\ cb = NewBreaker
    /\ now = 0
    /\ inflight = EmptyBag
    /\ pending = <<>>
    /\ started = 0
    /\ invocations = 0
    /\ overrides = 0
    /\ lastOutcome = NoOutcome
    /\ streak = 0
    /\ hoSuccesses = 0
    /\ lastWrite = NoWrite

BreakerInit == cfg \in BreakerConfigs /\ BreakerFresh

Init == BreakerInit /\ RetryIdle /\ ServicesIdle

(* ----------------------------- actions --------------------------------- *)
\* time.time() advances
Tick ==
    /\ now < MaxTime
    /\ now' = now + 1
    /\ UNCHANGED <<cfg, cb, inflight, pending, started, invocations,
                   overrides, lastOutcome, streak, hoSuccesses, retryVars,
                   serviceVars>>

\* call(): the lock section lets the call through and the operation starts
CallAdmitted ==
    /\ Ops < MaxOps
    /\ BagCardinality(inflight) < MaxInFlight
    /\ Admission(cb, now).state # OPEN
    /\ cb' = Admission(cb, now)
    /\ inflight' = Put(Disturbed(inflight),
                       [pre |-> cb, viaReset |-> ShouldAttemptReset(cb, now),
                        alone |-> NoneInFlight])
    /\ started' = started + 1
    /\ invocations' = invocations + 1
    /\ hoSuccesses' = HoAfter(cb, cb', 0)
    /\ UNCHANGED <<cfg, now, pending, overrides, lastOutcome, streak,
                   retryVars, serviceVars>>

\* call(): the lock section raises CircuitBreakerError
CallRejected ==
    /\ Ops < MaxOps
    /\ Admission(cb, now).state = OPEN
    /\ cb' = Admission(cb, now)
    /\ started' = started + 1
    /\ lastOutcome' = [result |-> "raised", kind |-> "CircuitBreakerError",
                       pre |-> cb, alone |-> TRUE, viaReset |-> FALSE]
    /\ UNCHANGED <<cfg, now, inflight, pending, invocations, overrides,
                   streak, hoSuccesses, retryVars, serviceVars>>

\* call(): the operation returned, _on_success, return result
CallReturn(c) ==
    /\ c \in InFlight
    /\ cb' = OnSuccess(cb)
    /\ inflight' = Disturbed(Take(inflight, c))
    /\ lastOutcome' = [result |-> "returned", kind |-> "none",
                       pre |-> c.pre, alone |-> c.alone,
                       viaReset |-> c.viaReset]
    /\ streak' = 0
    /\ hoSuccesses' = HoAfter(cb, cb', 1)
    /\ UNCHANGED <<cfg, now, pending, started, invocations, overrides,
                   retryVars, serviceVars>>

\* call(): the operation raised, _on_failure, re-raise
CallRaise(c, kind) ==
    /\ c \in InFlight
    /\ cb' = OnFailure(cb, kind, now)
    /\ inflight' = Disturbed(Take(inflight, c))
    /\ lastOutcome' = [result |-> "raised", kind |-> kind,
                       pre |-> c.pre, alone |-> c.alone,
                       viaReset |-> c.viaReset]
    /\ streak' = IF ~IsExcludedException(kind) /\ cb.state = CLOSED
                 THEN streak + 1 ELSE streak
    /\ hoSuccesses' = HoAfter(cb, cb', 0)
    /\ UNCHANGED <<cfg, now, pending, started, invocations, overrides,
                   retryVars, serviceVars>>

\* close() / open() / half_open(): create_task(self._change_state(...))
ManualOverride(target) ==
    /\ Ops < MaxOps
    /\ overrides' = overrides + 1
    /\ pending' = Append(pending, target)
    /\ UNCHANGED <<cfg, cb, now, inflight, started, invocations, lastOutcome,
                   streak, hoSuccesses, retryVars, serviceVars>>

\* the event loop runs the oldest scheduled _change_state task
RunOverride ==
    /\ pending # <<>>
    /\ cb' = ChangeState(cb, Head(pending))
    /\ pending' = Tail(pending)
    /\ inflight' = Disturbed(inflight)
    /\ streak' = 0
    /\ hoSuccesses' = HoAfter(cb, cb', 0)
    /\ UNCHANGED <<cfg, now, started, invocations, overrides, lastOutcome,
                   retryVars, serviceVars>>

Next ==
    \/ Tick
    \/ CallAdmitted
    \/ CallRejected
    \/ \E c \in InFlight : CallReturn(c)
    \/ \E c \in InFlight, kind \in BreakerKinds : CallRaise(c, kind)
    \/ \E target \in CircuitBreakerState : ManualOverride(target)
    \/ RunOverride

Spec == Init /\ [][Next]_vars

(* ======================= properties of the breaker ===================== *)
\* a step in which call() is entered
CallMade == started' = started + 1

\* a step in which call() raises CircuitBreakerError
Rejection == CallMade /\ lastOutcome'.kind = "CircuitBreakerError"
                      /\ invocations' = invocations

\* the reset timeout has elapsed since the last recorded failure
TimeoutElapsed ==
    /\ cb.last_failure_time # NoTime
    /\ now - cb.last_failure_time >= cfg.reset_timeout

\* the fields of the breaker that C4 lists
Counted(b) ==
    <<b.state, b.fail_counter, b.success_counter, b.total_requests,
      b.total_failures, b.total_successes, b.last_failure_time>>

\* the fields of C4 that no admission changes
CountedApartFromReset(b) ==
    <<b.fail_counter, b.total_requests, b.total_failures, b.total_successes,
      b.last_failure_time>>

(* C1: counting the non-excluded failures that call() records while the    *)
(* breaker is CLOSED since the last recorded success (streak; a manual     *)
(* override starts the count afresh), the failure that brings the count to *)
(* fail_max leaves the breaker OPEN; and a call() entered while the        *)
(* breaker is OPEN and less than reset_timeout has passed since the last   *)
(* failure raises CircuitBreakerError and does not invoke the operation.   *)
C1_OpensAtFailMax ==
    [][ /\ (streak' # streak /\ streak' >= cfg.fail_max) => cb'.state = OPEN
        /\ ( /\ CallMade
             /\ cb.state = OPEN
             /\ cb.last_failure_time # NoTime
             /\ now - cb.last_failure_time < cfg.reset_timeout )
           => (Rejection /\ inflight' = inflight /\ cb'.state = OPEN) ]_vars

C1_Witness ==
    /\ cfg.fail_max = 2
    /\ streak = 2
    /\ cb.state = OPEN
    /\ lastOutcome.kind = "CircuitBreakerError"
    /\ lastOutcome.pre.state = OPEN
    /\ invocations = 2

(* C2: a call() entered while the breaker is OPEN and at least             *)
(* reset_timeout has passed since the last failure is admitted: the        *)
(* breaker is HALF_OPEN and the operation is invoked.  A rejected call     *)
(* leaves last_failure_time as it was, so rejections never postpone that   *)
(* moment.  With success_threshold = 1, when such a call returns and       *)
(* nothing else touched the breaker meanwhile, the breaker is CLOSED.      *)
C2_AdmittedAfterTimeout ==
    [][ /\ (CallMade /\ cb.state = OPEN /\ TimeoutElapsed)
           => /\ cb'.state = HALF_OPEN
              /\ invocations' = invocations + 1
              /\ BagCardinality(inflight') = BagCardinality(inflight) + 1
        /\ Rejection => cb'.last_failure_time = cb.last_failure_time
        /\ \A c \in InFlight :
              ( /\ CallReturn(c)
                /\ c.viaReset
                /\ c.alone
                /\ cfg.success_threshold = 1 )
              => cb'.state = CLOSED ]_vars

C2_Witness ==
    /\ cfg.success_threshold = 1
    /\ cfg.reset_timeout = 1
    /\ lastOutcome.result = "returned"
    /\ lastOutcome.viaReset
    /\ lastOutcome.alone
    /\ lastOutcome.pre.state = OPEN
    /\ cb.state = CLOSED
    /\ started = 3
    /\ invocations = 2

(* C3: while the breaker is HALF_OPEN, and apart from manual overrides,    *)
(* a recorded success closes it exactly when it is the                     *)
(* success_threshold-th success since HALF_OPEN was entered and otherwise  *)
(* leaves it HALF_OPEN; a recorded non-excluded failure moves it to OPEN   *)
(* and sets last_failure_time to the time of that failure; every other     *)
(* step leaves it HALF_OPEN.                                               *)
C3_HalfOpen ==
    [][ (cb.state = HALF_OPEN /\ ~RunOverride) =>
          IF \E c \in InFlight : CallReturn(c)
          THEN cb'.state = IF hoSuccesses + 1 >= cfg.success_threshold
                           THEN CLOSED ELSE HALF_OPEN
          ELSE IF \E c \in InFlight, kind \in BreakerKinds :
                     CallRaise(c, kind) /\ ~IsExcludedException(kind)
          THEN cb'.state = OPEN /\ cb'.last_failure_time = now
          ELSE cb'.state = HALF_OPEN ]_vars

C3_Witness ==
    /\ cfg.success_threshold = 2
    /\ cb.state = HALF_OPEN
    /\ hoSuccesses = 1
    /\ lastOutcome.result = "returned"
    /\ lastOutcome.viaReset
    /\ lastOutcome.pre.state = OPEN

(* C4 as stated: when a call() that ran alone ends with an excluded error, *)
(* that error is re-raised and state, fail_counter, success_counter, the   *)
(* three totals and last_failure_time are as they were before the call.    *)
C4_AsBeforeTheCall ==
    [][ \A c \in InFlight, kind \in BreakerKinds :
          (CallRaise(c, kind) /\ IsExcludedException(kind) /\ c.alone)
          => /\ lastOutcome'.kind = kind
             /\ Counted(cb') = Counted(c.pre) ]_vars

(* C4 amended: when a call() ends with an excluded error, that error is    *)
(* re-raised and recording it changes no field of the breaker.  Against    *)
(* the moment before a call that ran alone: fail_counter, the three totals *)
(* and last_failure_time are unchanged; state and success_counter are      *)
(* unchanged too unless this call made the OPEN -> HALF_OPEN transition,   *)
(* and then the state is HALF_OPEN and success_counter is 0.               *)
C4_ExcludedLeavesBreaker ==
    [][ \A c \in InFlight, kind \in BreakerKinds :
          (CallRaise(c, kind) /\ IsExcludedException(kind))
          => /\ lastOutcome'.kind = kind
             /\ cb' = cb
             /\ c.alone =>
                  /\ CountedApartFromReset(cb')
                       = CountedApartFromReset(c.pre)
                  /\ IF c.viaReset
                     THEN /\ c.pre.state = OPEN
                          /\ cb'.state = HALF_OPEN
                          /\ cb'.success_counter = 0
                     ELSE Counted(cb') = Counted(c.pre) ]_vars

C4_Witness ==
    /\ "BusinessError" \in cfg.excluded_exceptions
    /\ lastOutcome.result = "raised"
    /\ lastOutcome.kind = "BusinessError"
    /\ lastOutcome.alone
    /\ lastOutcome.viaReset
    /\ lastOutcome.pre.state = OPEN
    /\ cb.state = HALF_OPEN

(* C5: a call() that raises CircuitBreakerError does not invoke the        *)
(* operation and changes no field of the breaker: state, the two counters, *)
(* last_failure_time, the three totals and state_changes.                  *)
C5_RejectionChangesNothing ==
    [][ CallRejected => /\ cb' = cb
                        /\ invocations' = invocations
                        /\ inflight' = inflight ]_vars

C5_Witness ==
    /\ lastOutcome.kind = "CircuitBreakerError"
    /\ lastOutcome.pre.state = OPEN
    /\ cb = lastOutcome.pre
    /\ cb.total_requests = cb.total_failures

(* ------------------- RetryManager on its own --------------------------- *)
\* CircuitBreaker.__init__ defaults, fail_max within the bounds of the model
DefaultBreakerConfig ==
    [fail_max |-> MaxFailMax, reset_timeout |-> MaxResetTimeout,
     success_threshold |-> 1, excluded_exceptions |-> {}]

BreakerIdle == cfg = DefaultBreakerConfig /\ BreakerFresh

InitRetry ==
    /\ BreakerIdle
    /\ rcfg \in RetryConfigs
    /\ rs = IdleRun
    /\ dl = NoDelay
    /\ ServicesIdle

\* execute_with_retry is entered (the manager is stateless and reused)
RetryStart ==
    /\ rs.pc \in {"idle", "returned", "raised"}
    /\ rs.runs < MaxRuns
    /\ rs' = RetryBegin(rs)
    /\ UNCHANGED <<breakerVars, rcfg, dl, serviceVars>>

\* the invocation of func returns
InvokeReturn ==
    /\ rs.pc = "invoking"
    /\ rs' = RetryReturn(rs)
    /\ UNCHANGED <<breakerVars, rcfg, dl, serviceVars>>

\* the invocation of func raises an exception of class kind
InvokeRaise(kind) ==
    /\ rs.pc = "invoking"
    /\ \E j \in IF rcfg.jitter THEN JitterChoices ELSE {0} :
           rs' = RetryRaise(rs, kind, j)
    /\ UNCHANGED <<breakerVars, rcfg, dl, serviceVars>>

\* asyncio.sleep(delay) is over
SleepDone ==
    /\ rs.pc = "sleeping"
    /\ rs' = RetryWake(rs)
    /\ UNCHANGED <<breakerVars, rcfg, dl, serviceVars>>

NextRetry ==
    \/ RetryStart
    \/ InvokeReturn
    \/ \E kind \in RetryKinds : InvokeRaise(kind)
    \/ SleepDone

SpecRetry == InitRetry /\ [][NextRetry]_vars

(* ------------------- _calculate_delay on its own ----------------------- *)
InitDelay ==
    /\ BreakerIdle
    /\ rcfg \in {c \in RetryConfigs : c.max_retries = 0
                                      /\ c.retryable_exceptions = {"Exception"}}
    /\ rs = IdleRun
    /\ dl = NoDelay
    /\ ServicesIdle

\* _calculate_delay(attempt) for the next attempt index
ComputeDelay ==
    /\ dl.attempt < MaxAttempt
    /\ \E j \in IF rcfg.jitter THEN JitterChoices ELSE {0} :
           dl' = [attempt |-> dl.attempt + 1,
                  delay |-> CalculateDelay(dl.attempt + 1, j),
                  prev |-> dl.delay, j |-> j]
    /\ UNCHANGED <<breakerVars, rcfg, rs, serviceVars>>

NextDelay == ComputeDelay

SpecDelay == InitDelay /\ [][NextDelay]_vars

(* ==================== properties of the retry manager ================== *)
AllRetryable(errors) == \A i \in 1..Len(errors) : ShouldRetry(errors[i])

(* C6: in a run whose failing invocations all raise retryable errors: if   *)
(* the run returns, it had k <= max_retries failures and made exactly k+1  *)
(* invocations; if it raises RetryError, every one of its max_retries+1    *)
(* invocations failed, attempts = max_retries+1 and last_exception is the  *)
(* error of the final invocation.                                          *)
C6_AttemptsAndResult ==
    /\ rs.pc = "returned" =>
         /\ AllRetryable(rs.errors)
         /\ Len(rs.errors) <= rcfg.max_retries
         /\ rs.invocations = Len(rs.errors) + 1
         /\ rs.outcome.result = "returned"
    /\ (rs.pc = "raised" /\ AllRetryable(rs.errors)) =>
         /\ Len(rs.errors) = rcfg.max_retries + 1
         /\ rs.invocations = rcfg.max_retries + 1
         /\ rs.outcome.result = "RetryError"
         /\ rs.outcome.attempts = rcfg.max_retries + 1
         /\ rs.outcome.last_exception
              = [kind |-> rs.errors[Len(rs.errors)], inv |-> rs.invocations]

C6_Witness ==
    /\ rcfg.max_retries = 2
    /\ rcfg.retryable_exceptions = {"ConnectionError"}
    /\ rs.pc = "raised"
    /\ rs.errors = <<"ConnectionError", "ConnectionError", "ConnectionError">>
    /\ rs.invocations = 3
    /\ rs.outcome.attempts = 3

(* C7: when an invocation raises an error that is not retryable, the run   *)
(* ends there with no sleep after it, and the RetryError wraps that error  *)
(* with attempts equal to the number of invocations made.                  *)
C7_AttemptsActuallyMade ==
    (rs.pc = "raised" /\ ~ShouldRetry(rs.last_exception.kind)) =>
        /\ Len(rs.sleeps) = rs.invocations - 1
        /\ rs.outcome.last_exception = rs.last_exception
        /\ rs.outcome.attempts = rs.invocations

(* C8 as stated: with jitter disabled the delay for attempt index a is     *)
(* min(base_delay * exponential_base^a, max_delay), it is non-decreasing   *)
(* in a for exponential_base >= 1 and it never exceeds max_delay.          *)
C8_MinOfBackoffAndCap ==
    (dl.attempt >= 0 /\ ~rcfg.jitter) =>
        /\ dl.delay = DelayScale * Min(rcfg.base_delay
                         * Pow(rcfg.exponential_base, dl.attempt),
                         rcfg.max_delay)
        /\ (rcfg.exponential_base >= 1 /\ dl.attempt >= 1)
              => dl.delay >= dl.prev
        /\ dl.delay <= DelayScale * rcfg.max_delay

(* C8 amended: with jitter disabled the delay for attempt index a is       *)
(* max(0, min(base_delay * exponential_base^a, max_delay)), which is the   *)
(* min itself when base_delay >= 0 and max_delay >= 0; it is               *)
(* non-decreasing in a for exponential_base >= 1 and never exceeds         *)
(* max(0, max_delay).                                                      *)
C8_ClampedMinOfBackoffAndCap ==
    (dl.attempt >= 0 /\ ~rcfg.jitter) =>
        /\ dl.delay = DelayScale * Max(0, Min(rcfg.base_delay
                         * Pow(rcfg.exponential_base, dl.attempt),
                         rcfg.max_delay))
        /\ (rcfg.base_delay >= 0 /\ rcfg.max_delay >= 0)
              => dl.delay = DelayScale * Min(rcfg.base_delay
                               * Pow(rcfg.exponential_base, dl.attempt),
                               rcfg.max_delay)
        /\ (rcfg.exponential_base >= 1 /\ dl.attempt >= 1)
              => dl.delay >= dl.prev
        /\ dl.delay <= DelayScale * Max(0, rcfg.max_delay)

C8_Witness ==
    /\ ~rcfg.jitter
    /\ rcfg.base_delay = 1
    /\ rcfg.exponential_base = 2
    /\ rcfg.max_delay = 4
    /\ dl.attempt = 3
    /\ dl.delay = 4 * DelayScale
    /\ dl.prev = 4 * DelayScale

(* C24: a run sleeps only between two invocations: there is no sleep      *)
(* before the first invocation and none after the last, so a run that has  *)
(* made m invocations has slept m-1 times once invocation m has started,   *)
(* and the i-th sleep, which precedes invocation i+1, lasts the delay      *)
(* computed for attempt index i-1.                                         *)
C24_SleepsBetweenInvocations ==
    /\ rs.pc \in {"invoking", "returned", "raised"} =>
           Len(rs.sleeps) = rs.invocations - 1
    /\ rs.pc = "sleeping" => Len(rs.sleeps) = rs.invocations
    /\ rs.pc = "idle" => rs.sleeps = <<>>
    /\ \A i \in 1..Len(rs.sleeps) :
           /\ rs.sleeps[i].before = i + 1
           /\ rs.sleeps[i].attempt = i - 1
           /\ \E j \in IF rcfg.jitter THEN JitterChoices ELSE {0} :
                  rs.sleeps[i].delay = CalculateDelay(i - 1, j)

\* a run has returned from its third invocation after two sleeps of
\* different lengths
C24_Witness ==
    /\ rs.pc = "returned"
    /\ rs.invocations = 3
    /\ Len(rs.sleeps) = 2
    /\ rs.sleeps[1].delay < rs.sleeps[2].delay
    /\ ~rcfg.jitter

(* ------- @circuit_breaker(...) over @with_retry(...) over func --------- *)
\* The decorated function of redis.py / the integration test: breaker.call
\* runs the retry wrapper, which runs func.  Decorated calls are made one
\* after the other, so at most one is in flight.
StackRetryConfigs ==
    {c \in RetryConfigs : /\ c.base_delay = 1
                          /\ c.max_delay = MaxMaxDelay
                          /\ c.exponential_base = MaxExpBase
                          /\ ~c.jitter}

InitStack ==
    /\ BreakerInit
    /\ rcfg \in StackRetryConfigs
    /\ rs = IdleRun
    /\ dl = NoDelay
    /\ ServicesIdle

\* the decorated call in flight
TheCall == CHOOSE c \in InFlight : TRUE

\* breaker.call admits the call; execute_with_retry starts and calls func
DecoratedAdmitted ==
    /\ Ops < MaxOps
    /\ NoneInFlight
    /\ Admission(cb, now).state # OPEN
    /\ cb' = Admission(cb, now)
    /\ inflight' = SetToBag({[pre |-> cb,
                              viaReset |-> ShouldAttemptReset(cb, now),
                              alone |-> TRUE]})
    /\ started' = started + 1
    /\ invocations' = invocations + 1
    /\ rs' = RetryBegin(rs)
    /\ UNCHANGED <<cfg, now, pending, overrides, lastOutcome, streak,
                   hoSuccesses, rcfg, dl, serviceVars>>

\* breaker.call raises CircuitBreakerError; the retry wrapper is not entered
DecoratedRejected ==
    /\ NoneInFlight
    /\ CallRejected

\* func returns: the retry wrapper returns, the breaker records a success
DecoratedReturn ==
    /\ ~NoneInFlight
    /\ rs.pc = "invoking"
    /\ rs' = RetryReturn(rs)
    /\ cb' = OnSuccess(cb)
    /\ inflight' = EmptyBag
    /\ lastOutcome' = [result |-> "returned", kind |-> "none",
                       pre |-> TheCall.pre, alone |-> TRUE,
                       viaReset |-> TheCall.viaReset]
    /\ UNCHANGED <<cfg, now, pending, started, invocations, overrides,
                   streak, hoSuccesses, rcfg, dl, serviceVars>>

\* the decorators applied in the other order: the breaker is the inner
\* layer and records every failed attempt
DecoratedAttemptFails_BreakerInner(kind) ==
    /\ ~NoneInFlight
    /\ rs.pc = "invoking"
    /\ rs' = RetryRaise(rs, kind, 0)
    /\ rs'.pc = "sleeping"
    /\ cb' = OnFailure(cb, kind, now)
    /\ UNCHANGED <<cfg, now, inflight, pending, started, invocations,
                   overrides, lastOutcome, streak, hoSuccesses, rcfg, dl,
                   serviceVars>>

\* func raises and the retry wrapper goes to sleep before the next attempt
DecoratedAttemptFails(kind) ==
    /\ ~NoneInFlight
    /\ rs.pc = "invoking"
    /\ rs' = RetryRaise(rs, kind, 0)
    /\ rs'.pc = "sleeping"
    /\ UNCHANGED <<breakerVars, rcfg, dl, serviceVars>>

\* the backoff sleep is over and func is called again
DecoratedWake ==
    /\ ~NoneInFlight
    /\ rs.pc = "sleeping"
    /\ rs' = RetryWake(rs)
    /\ invocations' = invocations + 1
    /\ UNCHANGED <<cfg, cb, now, inflight, pending, started, overrides,
                   lastOutcome, streak, hoSuccesses, rcfg, dl, serviceVars>>

\* func raises and the retry wrapper gives up: RetryError reaches
\* breaker.call, which records it with _on_failure and re-raises it
DecoratedRaise(kind) ==
    /\ ~NoneInFlight
    /\ rs.pc = "invoking"
    /\ rs' = RetryRaise(rs, kind, 0)
    /\ rs'.pc = "raised"
    /\ cb' = OnFailure(cb, "RetryError", now)
    /\ inflight' = EmptyBag
    /\ lastOutcome' = [result |-> "raised", kind |-> "RetryError",
                       pre |-> TheCall.pre, alone |-> TRUE,
                       viaReset |-> TheCall.viaReset]
    /\ UNCHANGED <<cfg, now, pending, started, invocations, overrides,
                   streak, hoSuccesses, rcfg, dl, serviceVars>>

NextStack ==
    \/ Tick
    \/ DecoratedAdmitted
    \/ DecoratedRejected
    \/ DecoratedReturn
    \/ \E kind \in RetryKinds : DecoratedAttemptFails(kind)
    \/ DecoratedWake
    \/ \E kind \in RetryKinds : DecoratedRaise(kind)

SpecStack == InitStack /\ [][NextStack]_vars

(* ================= properties of the decorated function ================ *)
\* a decorated call ends with the RetryError of max_retries+1 failed attempts
ExhaustedEpisode ==
    /\ \E kind \in RetryKinds : DecoratedRaise(kind)
    /\ rs'.invocations = rcfg.max_retries + 1

C10_FirstEpisodeOpensBreaker ==
    ( /\ cfg.fail_max = rcfg.max_retries + 1
      /\ started = 1
      /\ NoneInFlight
      /\ lastOutcome.kind = "RetryError"
      /\ rs.invocations = rcfg.max_retries + 1 )
    => /\ cb.total_failures = rcfg.max_retries + 1
       /\ cb.state = OPEN

(* ---- the decorated function under a breaker that excludes a kind ------ *)
\* The stack of SpecStack with excluded_exceptions = [BusinessError] on the
\* breaker and a func that raises BusinessError or ConnectionError.  What
\* reaches breaker.call is the RetryError of execute_with_retry, which
\* holds the error of func in last_exception.
ExcludedKinds == {"BusinessError", "ConnectionError"}

InitExcluded ==
    /\ InitStack
    /\ cfg.excluded_exceptions = {"BusinessError"}

NextExcluded ==
    \/ Tick
    \/ DecoratedAdmitted
    \/ DecoratedRejected
    \/ DecoratedReturn
    \/ \E kind \in ExcludedKinds : DecoratedAttemptFails(kind)
    \/ DecoratedWake
    \/ \E kind \in ExcludedKinds : DecoratedRaise(kind)

SpecExcluded == InitExcluded /\ [][NextExcluded]_vars

\* C39: with retry as the inner and the breaker as the outer layer, a
\* decorated call that ends because func failed with a kind listed in
\* excluded_exceptions of the breaker is excluded by the breaker:
\* recording its outcome leaves fail_counter, total_failures and state as
\* they were, although the error arrives wrapped in a RetryError.
C39_ExcludedThroughRetry ==
    [][ /\ rs.pc = "invoking"
        /\ rs'.pc = "raised"
        /\ IsExcludedException(rs'.outcome.last_exception.kind)
        => /\ cb'.fail_counter = cb.fail_counter
           /\ cb'.total_failures = cb.total_failures
           /\ cb'.state = cb.state ]_vars

(* ------------------ ServiceMonitor, start / stop / loop ---------------- *)
\* The health-check function and the alert handlers complete without
\* yielding (a plain function, LogAlertHandler), so one cycle of the loop
\* is one step; the loop is suspended only in asyncio.sleep.
InitMonitor ==
    /\ BreakerIdle
    /\ RetryIdle
    /\ MonitoringIdle
    /\ RegistryIdle
    /\ DiscoveryIdle
    /\ ManagerIdle
    /\ AlertsIdle
    /\ mcfg \in MonitorConfigs
    /\ MonitorFresh

\* check loops that can still run a cycle
LiveLoops == {t \in 1..Len(loops) : loops[t] = "alive"}

\* every suspended stop_monitoring has seen a start_monitoring
Overtaken(S) == {[s EXCEPT !.clean = FALSE] : s \in S}

\* start_monitoring
StartMonitoring ==
    /\ Len(loops) < MaxLoops
    /\ IF running
       THEN UNCHANGED <<running, monitoring_task, loops>>
       ELSE /\ running' = TRUE
            /\ loops' = Append(loops, "alive")
            /\ monitoring_task' = Len(loops) + 1
    /\ stops' = Overtaken(stops)
    /\ quiesced' = FALSE
    /\ UNCHANGED <<notMonitor, mcfg, metrics,
                   check>>

\* stop_monitoring up to its return or to `await self._monitoring_task`
StopMonitoring ==
    /\ IF ~running
       THEN /\ quiesced' = TRUE
            /\ UNCHANGED <<running, monitoring_task, loops, stops>>
       ELSE /\ running' = FALSE
            /\ IF monitoring_task = NoTask
               THEN /\ quiesced' = TRUE
                    /\ UNCHANGED <<monitoring_task, loops, stops>>
               ELSE IF loops[monitoring_task] = "done"
               THEN /\ monitoring_task' = NoTask
                    /\ quiesced' = TRUE
                    /\ UNCHANGED <<loops, stops>>
               ELSE /\ loops' = [loops EXCEPT ![monitoring_task] = "cancelled"]
                    /\ stops' = stops \cup {[task |-> monitoring_task,
                                             clean |-> TRUE]}
                    /\ UNCHANGED <<monitoring_task, quiesced>>
    /\ UNCHANGED <<notMonitor, mcfg, metrics,
                   check>>

\* stop_monitoring resumes after the awaited task has finished
StopReturn(s) ==
    /\ s \in stops
    /\ loops[s.task] = "done"
    /\ monitoring_task' = NoTask
    /\ stops' = stops \ {s}
    /\ quiesced' = (quiesced \/ s.clean)
    /\ UNCHANGED <<notMonitor, mcfg, metrics,
                   check, running, loops>>

\* _monitoring_loop of task t runs one cycle: health_check_func returns
LoopCheckReturns(t, result, slow) ==
    /\ t \in LiveLoops
    /\ running
    /\ check.cycle < MaxCycles
    /\ LET r == HealthCheckReturns(metrics, mcfg, result, slow)
       IN  /\ metrics' = r.metrics
           /\ check' = Checked(check, r)
    /\ UNCHANGED <<notMonitor, mcfg, running,
                   monitoring_task, loops, stops, quiesced>>

LoopCheckRaises_EndsLoop(t) ==
    /\ t \in LiveLoops
    /\ running
    /\ check.cycle < MaxCycles
    /\ LET r == HealthCheckRaises(metrics)
       IN  /\ metrics' = r.metrics
           /\ check' = Checked(check, r)
    /\ loops' = [loops EXCEPT ![t] = "failed"]
    /\ UNCHANGED <<notMonitor, mcfg, running,
                   monitoring_task, stops, quiesced>>

\* _monitoring_loop of task t runs one cycle: health_check_func raises
LoopCheckRaises(t) ==
    /\ t \in LiveLoops
    /\ running
    /\ check.cycle < MaxCycles
    /\ LET r == HealthCheckRaises(metrics)
       IN  /\ metrics' = r.metrics
           /\ check' = Checked(check, r)
    /\ UNCHANGED <<notMonitor, mcfg, running,
                   monitoring_task, loops, stops, quiesced>>

\* _monitoring_loop of task t ends: CancelledError is delivered, or the
\* loop wakes up and finds _running false
LoopExit(t) ==
    /\ t \in 1..Len(loops)
    /\ \/ loops[t] = "cancelled"
       \/ loops[t] = "alive" /\ ~running
    /\ loops' = [loops EXCEPT ![t] = "done"]
    /\ UNCHANGED <<notMonitor, mcfg, metrics,
                   check, running, monitoring_task, stops, quiesced>>

NextMonitor ==
    \/ StartMonitoring
    \/ StopMonitoring
    \/ \E s \in stops : StopReturn(s)
    \/ \E t \in LiveLoops, result \in CheckResults, slow \in BOOLEAN :
           LoopCheckReturns(t, result, slow)
    \/ \E t \in LiveLoops : LoopCheckRaises(t)
    \/ \E t \in 1..Len(loops) : LoopExit(t)

SpecMonitor == InitMonitor /\ [][NextMonitor]_vars

\* a step that completes one health-check cycle
CycleDone == check'.cycle = check.cycle + 1

Occurrences(alerts, a) ==
    Cardinality({i \in 1..Len(alerts) : alerts[i] = a})

\* C11: every change of is_healthy from true to false, by an unhealthy
\* result or by an exception of the health-check function, comes with
\* exactly one "Service became unhealthy" alert, and a cycle that starts
\* unhealthy sends none.
C11_BecameUnhealthyOncePerChange ==
    [][CycleDone =>
          Occurrences(check'.alerts, BecameUnhealthyAlert) =
              IF metrics.is_healthy /\ ~metrics'.is_healthy THEN 1 ELSE 0]_vars

C18_SingleLoop ==
    /\ Cardinality(LiveLoops) <= 1
    /\ quiesced => LiveLoops = {}

(* ------------- ServiceMonitor._perform_health_check, called ------------ *)
\* _perform_health_check awaited directly, one call after the other, as
\* the unit tests do and as one loop does
InitCheck == InitMonitor

\* _perform_health_check(): health_check_func returns result
PerformCheckReturns(result, slow) ==
    /\ check.cycle < MaxChecks
    /\ LET r == HealthCheckReturns(metrics, mcfg, result, slow)
       IN  /\ metrics' = r.metrics
           /\ check' = Checked(check, r)
    /\ UNCHANGED <<notMonitor, mcfg, running, monitoring_task, loops, stops,
                   quiesced>>

\* _perform_health_check(): health_check_func raises
PerformCheckRaises ==
    /\ check.cycle < MaxChecks
    /\ LET r == HealthCheckRaises(metrics)
       IN  /\ metrics' = r.metrics
           /\ check' = Checked(check, r)
    /\ UNCHANGED <<notMonitor, mcfg, running, monitoring_task, loops, stops,
                   quiesced>>

NextCheck ==
    \/ \E result \in CheckResults, slow \in BOOLEAN :
           PerformCheckReturns(result, slow)
    \/ PerformCheckRaises

SpecCheck == InitCheck /\ [][NextCheck]_vars

\* C25: every change of is_healthy from false to true comes with exactly
\* one INFO "Service recovered" alert, also when it was an exception that
\* had made the monitor unhealthy, and a cycle that starts healthy or ends
\* unhealthy sends none.
C25_RecoveredOncePerChange ==
    [][CycleDone =>
          /\ Occurrences(check'.alerts, RecoveredAlert) =
                 IF ~metrics.is_healthy /\ metrics'.is_healthy THEN 1 ELSE 0
          /\ RecoveredAlert.severity = "info"]_vars

\* a healthy result has followed a cycle that raised, with a recovered
\* alert; and a further healthy cycle has sent none
C25_Witness ==
    /\ check.prev_raised
    /\ ~check.raised
    /\ metrics.is_healthy
    /\ check.alerts = <<RecoveredAlert>>
    /\ metrics.success_count >= 2

\* C26: a cycle sends the consecutive-failures alert ("Service unhealthy
\* for n consecutive checks") exactly when consecutive_failures is at
\* least failure_threshold after it, whether the failures of the streak
\* were unhealthy results or exceptions.
C26_ThresholdAlertAtThreshold ==
    [][CycleDone =>
          (Occurrences(check'.alerts, ThresholdAlert) >= 1
           <=> metrics'.consecutive_failures >= mcfg.failure_threshold)]_vars

\* C27: a cycle in which the health-check function returns sends the
\* WARNING response-time alert exactly when the response time is above
\* the threshold, whether the result is healthy or not.
C27_ResponseTimeAlertWhenSlow ==
    [][\A result \in CheckResults, slow \in BOOLEAN :
          PerformCheckReturns(result, slow) =>
              /\ Occurrences(check'.alerts, ResponseTimeAlert) >= 1 <=> slow
              /\ ResponseTimeAlert.severity = "warning"]_vars

\* C28: a cycle, ended by a result or by an exception, after which
\* total_requests > 10 and the error rate is above error_rate_threshold
\* sends the WARNING error-rate alert, and no cycle sends it while
\* total_requests <= 10.
C28_ErrorRateAlertAboveTen ==
    [][CycleDone =>
          /\ (TotalRequests(metrics') > 10 /\ ErrorRateExceeds(metrics', mcfg))
                 => Occurrences(check'.alerts, ErrorRateAlert) >= 1
          /\ TotalRequests(metrics') <= 10
                 => Occurrences(check'.alerts, ErrorRateAlert) = 0]_vars

\* the classification that C29 states
ClaimedHealthy(result) ==
    IF result = "dict_unhealthy" THEN FALSE
    ELSE IF result = "false" THEN FALSE
    ELSE TRUE

\* C29: a dict whose status is "healthy" is healthy and a dict with
\* another status is unhealthy; a bool is healthy exactly when true; every
\* other result, a dict without a status key included, is healthy.
C29_ResultClassification ==
    [][\A result \in CheckResults, slow \in BOOLEAN :
          PerformCheckReturns(result, slow) =>
              /\ check'.returned = ClaimedHealthy(result)
              /\ metrics'.is_healthy = ClaimedHealthy(result)]_vars

\* C34: consecutive_failures counts the failing cycles (unhealthy result or
\* exception) since the latest healthy cycle: a healthy cycle leaves it 0
\* and adds one to success_count alone, a failing cycle adds one to it and
\* one to error_count alone.
C34_StreakCountsFailingCycles ==
    [][CycleDone =>
          IF check'.returned
          THEN /\ metrics'.consecutive_failures = 0
               /\ metrics'.success_count = metrics.success_count + 1
               /\ metrics'.error_count = metrics.error_count
          ELSE /\ metrics'.consecutive_failures =
                      metrics.consecutive_failures + 1
               /\ metrics'.error_count = metrics.error_count + 1
               /\ metrics'.success_count = metrics.success_count]_vars

\* a healthy cycle, then an unhealthy result, then a cycle that raised:
\* the streak is 2
C34_Witness ==
    /\ metrics.success_count = 1
    /\ metrics.error_count = 2
    /\ metrics.consecutive_failures = 2
    /\ check.raised
    /\ ~check.prev_raised

(* ------------------- MonitoringManager and its monitors ---------------- *)
InitMonitoring ==
    /\ BreakerIdle
    /\ RetryIdle
    /\ MonitorIdle
    /\ MonitoringIdle
    /\ RegistryIdle
    /\ DiscoveryIdle
    /\ ManagerIdle
    /\ AlertsIdle

\* create_monitor(service_name, ..., failure_threshold, auto_start)
CreateMonitor(name, threshold, auto_start) ==
    /\ monitors' =
           IF name \in DOMAIN monitors THEN monitors
           ELSE DictSet(monitors, name,
                        [config |-> [DefaultMonitorConfig EXCEPT
                                         !.failure_threshold = threshold],
                         metrics |-> NewMetrics,
                         running |-> auto_start])
    /\ UNCHANGED <<notMonitoring, summary>>

\* start_all_monitoring
StartAllMonitoring ==
    /\ monitors' = [n \in DOMAIN monitors |->
                       [monitors[n] EXCEPT !.running = TRUE]]
    /\ UNCHANGED <<notMonitoring, summary>>

\* the check loop of the monitor called name runs one cycle
MonitorCheckReturns(name, result, slow) ==
    /\ name \in DOMAIN monitors
    /\ monitors[name].running
    /\ TotalRequests(monitors[name].metrics) < MaxCycles
    /\ monitors' =
           [monitors EXCEPT ![name].metrics =
               HealthCheckReturns(monitors[name].metrics,
                                  monitors[name].config, result, slow).metrics]
    /\ UNCHANGED <<notMonitoring, summary>>

\* the check loop of the monitor called name runs one cycle, which raises
MonitorCheckRaises(name) ==
    /\ name \in DOMAIN monitors
    /\ monitors[name].running
    /\ TotalRequests(monitors[name].metrics) < MaxCycles
    /\ monitors' =
           [monitors EXCEPT ![name].metrics =
               HealthCheckRaises(monitors[name].metrics).metrics]
    /\ UNCHANGED <<notMonitoring, summary>>

\* get_health_summary
GetHealthSummary ==
    /\ summary.taken < MaxSummaries
    /\ summary' = [taken |-> summary.taken + 1,
                   report |-> HealthSummary(monitors)]
    /\ UNCHANGED <<notMonitoring, monitors>>

NextMonitoring ==
    \/ \E name \in MonitorNames, threshold \in 1..MaxFailureThreshold,
          auto_start \in BOOLEAN : CreateMonitor(name, threshold, auto_start)
    \/ StartAllMonitoring
    \/ \E name \in MonitorNames, result \in CheckResults, slow \in BOOLEAN :
           MonitorCheckReturns(name, result, slow)
    \/ \E name \in MonitorNames : MonitorCheckRaises(name)
    \/ GetHealthSummary

SpecMonitoring == InitMonitoring /\ [][NextMonitoring]_vars

\* C15: get_health_summary reports overall_health "healthy" exactly when
\* is_healthy is true for every registered monitor and "degraded"
\* otherwise, and healthy_services + unhealthy_services = total_services.
C15_OverallHealth ==
    [][summary'.taken = summary.taken + 1 =>
          LET report == summary'.report
          IN  /\ report.overall_health \in {"healthy", "degraded"}
              /\ report.overall_health = "healthy" <=>
                     \A n \in DOMAIN monitors : monitors[n].metrics.is_healthy
              /\ report.healthy_services + report.unhealthy_services =
                     report.total_services
              /\ report.total_services = Cardinality(DOMAIN monitors)]_vars

\* a summary over one healthy and one unhealthy monitor
C15_Witness ==
    /\ summary.taken > 0
    /\ summary.report.total_services = 2
    /\ summary.report.healthy_services = 1
    /\ summary.report.overall_health = "degraded"

(* --------------- MonitoringManager and the alert handlers -------------- *)
\* The handlers complete or raise without yielding, so one _send_alert is
\* one step.  A handler object may be registered more than once: neither
\* add_global_alert_handler nor add_alert_handler looks for it in the list.
InitAlerts ==
    /\ BreakerIdle
    /\ RetryIdle
    /\ ServicesIdle

\* add_global_alert_handler(h)
AddGlobalAlertHandler(h) ==
    /\ Len(global_alert_handlers) < MaxHandlers
    /\ \A n \in DOMAIN alert_handlers : Len(alert_handlers[n]) <= MaxHandlers
    /\ global_alert_handlers' = Append(global_alert_handlers, h)
    /\ alert_handlers' =
           [n \in DOMAIN alert_handlers |-> Append(alert_handlers[n], h)]
    /\ UNCHANGED <<breakerVars, retryVars, monitorVars, monitoringVars,
                   registryVars, discoveryVars, managerVars, lockVars, added,
                   sent>>

\* create_monitor(name, ...): the alert_handlers of the monitor returned
CreateMonitorHandlers(name) ==
    /\ IF name \in DOMAIN alert_handlers
       THEN UNCHANGED <<alert_handlers, added>>
       ELSE /\ alert_handlers' =
                   DictSet(alert_handlers, name,
                           <<LogHandler>> \o global_alert_handlers)
            /\ added' = DictSet(added, name, <<>>)
    /\ UNCHANGED <<breakerVars, retryVars, monitorVars, monitoringVars,
                   registryVars, discoveryVars, managerVars, lockVars,
                   global_alert_handlers, sent>>

\* get_monitor(name).add_alert_handler(h)
AddAlertHandler(name, h) ==
    /\ name \in DOMAIN alert_handlers
    /\ Len(alert_handlers[name]) <= MaxHandlers
    /\ alert_handlers' =
           [alert_handlers EXCEPT ![name] = Append(alert_handlers[name], h)]
    /\ added' = [added EXCEPT ![name] = Append(added[name], h)]
    /\ UNCHANGED <<breakerVars, retryVars, monitorVars, monitoringVars,
                   registryVars, discoveryVars, managerVars, lockVars,
                   global_alert_handlers, sent>>

\* the monitor of name raises an alert; the handlers in raising raise
MonitorSendsAlert(name, raising) ==
    /\ sent.count < MaxAlerts
    /\ name \in DOMAIN alert_handlers
    /\ LET r == SendAlert(alert_handlers[name], raising)
       IN  sent' = [count |-> sent.count + 1, monitor |-> name,
                    received |-> r.received, raising |-> raising,
                    errors |-> r.errors]
    /\ UNCHANGED <<breakerVars, retryVars, monitorVars, monitoringVars,
                   registryVars, discoveryVars, managerVars, lockVars,
                   global_alert_handlers, alert_handlers, added>>

NextAlerts ==
    \/ \E h \in AlertHandlers : AddGlobalAlertHandler(h)
    \/ \E name \in MonitorNames : CreateMonitorHandlers(name)
    \/ \E name \in MonitorNames, h \in AlertHandlers : AddAlertHandler(name, h)
    \/ \E name \in MonitorNames, raising \in SUBSET AlertHandlers :
           MonitorSendsAlert(name, raising)

SpecAlerts == InitAlerts /\ [][NextAlerts]_vars

\* a step in which a monitor raises an alert
AlertSent == sent'.count = sent.count + 1

\* the handlers registered globally or added to the monitor that raised
\* the latest alert
RegisteredFor(name) ==
    {global_alert_handlers[i] : i \in 1..Len(global_alert_handlers)}
        \cup {added[name][i] : i \in 1..Len(added[name])}

\* C31 as stated: an alert raised by a monitor of the manager is delivered
\* exactly once to each globally registered handler and exactly once to
\* each handler added to that monitor, also when a handler raises.
C31_ExactlyOncePerHandler ==
    [][AlertSent =>
          \A h \in RegisteredFor(sent'.monitor) :
              Occurrences(sent'.received, h) = 1]_vars

\* C31 amended: an alert raised by a monitor of the manager is delivered
\* once per registration: a handler gets it once for every time it was
\* registered globally, before or after the monitor was created, plus once
\* for every time it was added to that monitor (exactly once when it was
\* registered once), the LogAlertHandler of the monitor gets it once, and
\* nobody else gets it; a handler that raises does not keep the alert from
\* the other handlers.
C31_OncePerRegistration ==
    [][AlertSent =>
          \A h \in AlertHandlers \cup {LogHandler} :
              Occurrences(sent'.received, h) =
                  Occurrences(global_alert_handlers, h)
                      + Occurrences(added[sent'.monitor], h)
                      + (IF h = LogHandler THEN 1 ELSE 0)]_vars

\* the monitor of database got h2 from its owner and then h1 from the
\* manager, after it was created; h2 raised and h1 got the alert all the
\* same; the monitor of redis was created later
C31_Witness ==
    /\ sent.monitor = "database"
    /\ sent.received = <<LogHandler, "h2", "h1">>
    /\ sent.raising = {"h2"}
    /\ sent.errors = 1
    /\ global_alert_handlers = <<"h1">>
    /\ "redis" \in DOMAIN alert_handlers

(* ------------------------- ServiceRegistry ----------------------------- *)
\* The discovery behind the registry returns its lists without yielding
\* (both strategies of the source do), so get_healthy_endpoints and
\* get_best_endpoint are one step each.  The probes of one round are
\* gathered and their results written in the step that ends the round.
InitRegistry ==
    /\ BreakerIdle
    /\ RetryIdle
    /\ MonitorIdle
    /\ MonitoringIdle
    /\ DiscoveryIdle
    /\ ManagerIdle
    /\ AlertsIdle
    /\ endpoints \in
           {[s \in RegistryServices |->
                IF s = "redis" THEN eps ELSE <<NewEndpoint(1)>>] :
            eps \in SeqsUpTo({NewEndpoint(w) : w \in Weights}, MaxEndpoints)}
    /\ RegistryFresh

\* the list that _endpoints_cache.get(service, []) yields
CachedEndpoints(s) == IF s \in cached THEN endpoints[s] ELSE <<>>

\* probe loops that have not finished
RunningProbes == {t \in 1..Len(probes) : probes[t].state # "done"}

\* get_healthy_endpoints starting a probe loop whether or not the service
\* has one
StartHealthCheck_EveryCall(s) ==
    /\ Len(probes) < MaxProbes
    /\ probes' = Append(probes, [service |-> s, state |-> "alive"])
    /\ health_check_tasks' = DictSet(health_check_tasks, s, Len(probes) + 1)

\* get_healthy_endpoints: the probe loop of the service is started if
\* _health_check_tasks has none for it
StartHealthCheck(s) ==
    /\ s \in DOMAIN health_check_tasks \/ Len(probes) < MaxProbes
    /\ IF s \in DOMAIN health_check_tasks
       THEN UNCHANGED <<health_check_tasks, probes>>
       ELSE /\ probes' = Append(probes, [service |-> s, state |-> "alive"])
            /\ health_check_tasks' =
                   DictSet(health_check_tasks, s, Len(probes) + 1)

\* get_healthy_endpoints up to its return statement: the cache is filled
\* and the probe loop of the service is started if there is none
LookUp(s) ==
    /\ cached' = cached \cup {s}
    /\ StartHealthCheck(s)

\* get_healthy_endpoints(s)
GetHealthyEndpoints(s) ==
    /\ LookUp(s)
    /\ UNCHANGED <<notRegistry, rounds, probed, lookups, endpoints, closing,
                   best>>

\* get_best_endpoint(s)
GetBestEndpoint(s) ==
    /\ best.lookups < MaxLookups
    /\ LookUp(s)
    /\ best' = [lookups |-> best.lookups + 1, service |-> s,
                index |-> BestEndpoint(endpoints[s])]
    /\ UNCHANGED <<notRegistry, rounds, probed, lookups, endpoints, closing>>

\* an endpoint whose probe raised keeps the flag it had
Marked_RaiseKeepsFlag(endpoint, result) ==
    IF result = "error"
    THEN endpoint
    ELSE [endpoint EXCEPT !.healthy = (result = "up")]

\* _health_check_loop on one gathered result: an exception marks the
\* endpoint unhealthy, a returned value becomes its flag
Marked(endpoint, result) ==
    IF result = "error"
    THEN [endpoint EXCEPT !.healthy = FALSE]
    ELSE [endpoint EXCEPT !.healthy = (result = "up")]

\* one round of _health_check_loop of task t: every cached endpoint of its
\* service has been probed and takes the result of its probe (a probe that
\* raised counts as unhealthy)
Probed(t, results) ==
    /\ t \in 1..Len(probes)
    /\ probes[t].state = "alive"
    /\ LET s == probes[t].service
           eps == CachedEndpoints(s)
       IN  /\ DOMAIN results = 1..Len(eps)
           /\ endpoints' =
                  [endpoints EXCEPT ![s] =
                      [i \in 1..Len(endpoints[s]) |->
                          IF i \in 1..Len(eps)
                          THEN Marked(eps[i], results[i])
                          ELSE endpoints[s][i]]]
    /\ UNCHANGED <<notRegistry, cached, health_check_tasks, probes, closing,
                   best>>

\* _health_check_loop of task t ends one round
ProbeRound(t, results) ==
    /\ Probed(t, results)
    /\ UNCHANGED <<rounds, probed, lookups>>

\* _health_check_loop of task t ends: CancelledError is delivered
ProbeExit(t) ==
    /\ t \in 1..Len(probes)
    /\ probes[t].state = "cancelled"
    /\ probes' = [probes EXCEPT ![t].state = "done"]
    /\ UNCHANGED <<notRegistry, rounds, probed, lookups, endpoints, cached,
                   health_check_tasks, closing, best>>

\* close() up to its return or to `await asyncio.gather(...)`
CloseRegistry ==
    /\ closing.pc = "idle"
    /\ closing.returned < MaxCloses
    /\ LET tasks == {health_check_tasks[s] : s \in DOMAIN health_check_tasks}
       IN  /\ probes' = [t \in 1..Len(probes) |->
                            IF t \in tasks /\ probes[t].state = "alive"
                            THEN [probes[t] EXCEPT !.state = "cancelled"]
                            ELSE probes[t]]
           /\ IF tasks = {}
              THEN /\ health_check_tasks' = EmptyDict
                   /\ cached' = {}
                   /\ closing' = [closing EXCEPT
                                      !.returned = closing.returned + 1]
              ELSE /\ closing' = [closing EXCEPT !.pc = "waiting",
                                                 !.awaited = tasks]
                   /\ UNCHANGED <<health_check_tasks, cached>>
    /\ UNCHANGED <<notRegistry, rounds, probed, lookups, endpoints, best>>

\* close() resumes after the gathered tasks have finished
CloseReturn ==
    /\ closing.pc = "waiting"
    /\ \A t \in closing.awaited : probes[t].state = "done"
    /\ health_check_tasks' = EmptyDict
    /\ cached' = {}
    /\ closing' = [pc |-> "idle", awaited |-> {},
                   returned |-> closing.returned + 1]
    /\ UNCHANGED <<notRegistry, rounds, probed, lookups, endpoints, probes,
                   best>>

NextRegistry ==
    \/ \E s \in RegistryServices : GetHealthyEndpoints(s)
    \/ \E s \in RegistryServices : GetBestEndpoint(s)
    \/ \E t \in 1..Len(probes) :
           \E results \in [1..Len(CachedEndpoints(probes[t].service)) ->
                              {"up", "down", "error"}] :
               ProbeRound(t, results)
    \/ \E t \in 1..Len(probes) : ProbeExit(t)
    \/ CloseRegistry
    \/ CloseReturn

SpecRegistry == InitRegistry /\ [][NextRegistry]_vars

\* C13: get_best_endpoint returns, among the cached endpoints of the
\* service whose healthy flag is true, one of greatest weight, the first
\* such in the cached list, and None exactly when no cached endpoint is
\* healthy.
C13_BestIsFirstHeaviestHealthy ==
    [][best'.lookups = best.lookups + 1 =>
          LET eps == endpoints'[best'.service]
              healthy == {i \in 1..Len(eps) : eps[i].healthy}
              i == best'.index
          IN  /\ best'.service \in cached'
              /\ (i = NoEndpoint) <=> (healthy = {})
              /\ i # NoEndpoint =>
                     /\ i \in healthy
                     /\ \A j \in healthy : eps[j].weight <= eps[i].weight
                     /\ \A j \in healthy :
                            eps[j].weight = eps[i].weight => i <= j]_vars

\* C17: when close() returns, no probe loop started by the registry is
\* still running, whatever get_healthy_endpoints calls have run while
\* close() was waiting.
C17_NoProbeAfterClose ==
    [][closing'.returned = closing.returned + 1 => RunningProbes' = {}]_vars

(* ----------------- ServiceDiscovery.discover_endpoints ----------------- *)
InitDiscovery ==
    /\ BreakerIdle
    /\ RetryIdle
    /\ MonitorIdle
    /\ MonitoringIdle
    /\ RegistryIdle
    /\ ManagerIdle
    /\ AlertsIdle
    /\ settings \in SettingsChoices
    /\ discovered = NoDiscovery

\* StaticServiceDiscovery.discover_endpoints(name)
DiscoverStatic(name) ==
    /\ LET r == StaticDiscover(settings, name)
       IN  discovered' = [strategy |-> "static", name |-> name,
                          ips |-> ResolutionFailed, raised |-> r.raised,
                          endpoints |-> r.endpoints]
    /\ UNCHANGED <<notDiscovery, settings>>

\* KubernetesServiceDiscovery.discover_endpoints(name), getaddrinfo
\* answering with ips
DiscoverKubernetes(name, ips) ==
    /\ LET r == KubernetesDiscover(name, ips)
       IN  discovered' = [strategy |-> "kubernetes", name |-> name,
                          ips |-> ips, raised |-> r.raised,
                          endpoints |-> r.endpoints]
    /\ UNCHANGED <<notDiscovery, settings>>

NextDiscovery ==
    \/ \E name \in DiscoveryNames : DiscoverStatic(name)
    \/ \E name \in DiscoveryNames, ips \in Resolutions :
           DiscoverKubernetes(name, ips)

SpecDiscovery == InitDiscovery /\ [][NextDiscovery]_vars

\* C16: discover_endpoints never raises: the static strategy returns the
\* configured list, empty for an unknown service, and the DNS-based
\* strategy, when the name does not resolve, returns one fallback
\* endpoint whose host is the service name and whose port is the
\* well-known port of the service, 80 if it has none.
C16_DiscoveryNeverRaises ==
    /\ discovered.raised = "None"
    /\ discovered.strategy = "static" =>
           discovered.endpoints =
               IF discovered.name \in StaticNames
                  /\ settings[discovered.name].hostname # NoHost
               THEN LoadStaticEndpoints(settings)[discovered.name]
               ELSE <<>>
    /\ (discovered.strategy = "kubernetes"
        /\ discovered.ips = ResolutionFailed) =>
           /\ Len(discovered.endpoints) = 1
           /\ discovered.endpoints[1].host = discovered.name
           /\ discovered.endpoints[1].port =
                  KubernetesDefaultPort(discovered.name)

(* ------------------------ CircuitBreakerManager ------------------------ *)
\* Calls are made through the breakers whose configuration is the one held
\* in cfg, one call at a time.
InitManager ==
    /\ BreakerIdle
    /\ RetryIdle
    /\ MonitorIdle
    /\ MonitoringIdle
    /\ RegistryIdle
    /\ DiscoveryIdle
    /\ ManagerIdle
    /\ AlertsIdle

\* get_breaker(name, fail_max, reset_timeout, success_threshold,
\* excluded_exceptions)
GetBreaker(name, args) ==
    /\ got.calls < MaxGets
    /\ breakers' = GetOrCreate(breakers, name, args, instances)
    /\ instances' = IF breakers' = breakers THEN instances ELSE instances + 1
    /\ got' = [calls |-> got.calls + 1, name |-> name,
               instance |-> breakers'[name].instance,
               same_config |-> breakers'[name].config = ConfigFrom(args)]
    /\ UNCHANGED <<notManager, resets>>

\* get_breaker(name).call(func): func raises an exception of class kind
ManagedCallRaises(name, kind) ==
    /\ name \in DOMAIN breakers
    /\ breakers[name].config = cfg
    /\ breakers[name].b.total_requests < MaxManagedCalls
    /\ Admission(breakers[name].b, now).state # OPEN
    /\ breakers' = [breakers EXCEPT ![name].b =
                        OnFailure(Admission(breakers[name].b, now), kind, now)]
    /\ UNCHANGED <<notManager, instances, got, resets>>

\* get_breaker(name).call(func): func returns
ManagedCallReturns(name) ==
    /\ name \in DOMAIN breakers
    /\ breakers[name].config = cfg
    /\ breakers[name].b.total_requests < MaxManagedCalls
    /\ Admission(breakers[name].b, now).state # OPEN
    /\ breakers' = [breakers EXCEPT ![name].b =
                        OnSuccess(Admission(breakers[name].b, now))]
    /\ UNCHANGED <<notManager, instances, got, resets>>

NextManager ==
    \/ \E name \in BreakerNames, args \in ManagerArgs : GetBreaker(name, args)
    \/ \E name \in BreakerNames, kind \in BreakerKinds :
           ManagedCallRaises(name, kind)
    \/ \E name \in BreakerNames : ManagedCallReturns(name)

SpecManager == InitManager /\ [][NextManager]_vars

\* C14: get_breaker is idempotent by name: every call returns the breaker
\* registered under the name, a first call registers one with the
\* configuration it asks for, a later call leaves that breaker as it is
\* (same instance, configuration, state and counters) whatever
\* configuration it asks for, and no step replaces a registered breaker
\* or its configuration.
C14_GetBreakerIdempotent ==
    [][/\ got'.calls = got.calls + 1 =>
              LET name == got'.name
              IN  /\ name \in DOMAIN breakers'
                  /\ got'.instance = breakers'[name].instance
                  /\ name \in DOMAIN breakers =>
                         breakers'[name] = breakers[name]
                  /\ name \notin DOMAIN breakers =>
                         /\ got'.same_config
                         /\ breakers'[name].b = NewBreaker
                  /\ \A other \in DOMAIN breakers \ {name} :
                         breakers'[other] = breakers[other]
       /\ \A name \in DOMAIN breakers :
              /\ name \in DOMAIN breakers'
              /\ breakers'[name].instance = breakers[name].instance
              /\ breakers'[name].config = breakers[name].config]_vars

\* get_breaker has been called with another configuration for a breaker
\* that is open after failures
C14_Witness ==
    /\ got.name \in DOMAIN breakers
    /\ ~got.same_config
    /\ breakers[got.name].b.state = OPEN
    /\ breakers[got.name].b.fail_counter = cfg.fail_max
    /\ breakers[got.name].config = cfg

(* ----------------- CircuitBreakerManager.reset_all --------------------- *)
\* The breakers are registered with the configuration held in cfg, whose
\* reset_timeout is 0, so that a call made through an OPEN breaker is the
\* trial call of the half-open state, and whose fail_max is 1.
ResetConfigs ==
    {c \in BreakerConfigs : /\ c.fail_max = 1
                            /\ c.reset_timeout = 0
                            /\ c.excluded_exceptions = {}}

InitReset ==
    /\ cfg \in ResetConfigs
    /\ BreakerFresh
    /\ RetryIdle
    /\ ServicesIdle

\* get_breaker called with every argument given
ArgsFor(c) == [f \in DOMAIN c |-> Given(c[f])]

\* reset_all: breaker.close() for every registered breaker, each of which
\* creates a task for _change_state(CLOSED)
ResetAll ==
    /\ resets.calls < MaxResets
    /\ resets' = [resets EXCEPT
                      !.calls = resets.calls + 1,
                      !.scheduled =
                          resets.scheduled \o InOrder(breakers, DOMAIN breakers)]
    /\ UNCHANGED <<notManager, breakers, instances, got>>

\* the event loop runs the tasks that reset_all created.  They were put
\* on the ready queue one after the other by a method that does not
\* suspend, and each runs to its end without suspending, so nothing runs
\* between them.
RunResets ==
    /\ resets.scheduled # <<>>
    /\ breakers' = RunCloseTasks(breakers, resets.scheduled)
    /\ resets' = [resets EXCEPT
                      !.scheduled = <<>>,
                      !.done = resets.done + 1,
                      !.closed_from =
                          {breakers[resets.scheduled[i]].b.state :
                              i \in 1..Len(resets.scheduled)}]
    /\ UNCHANGED <<notManager, instances, got>>

NextReset ==
    \/ \E name \in BreakerNames : GetBreaker(name, ArgsFor(cfg))
    \/ \E name \in BreakerNames, kind \in BreakerKinds :
           ManagedCallRaises(name, kind)
    \/ \E name \in BreakerNames : ManagedCallReturns(name)
    \/ ResetAll
    \/ RunResets

SpecReset == InitReset /\ [][NextReset]_vars

\* C23: when the close tasks that reset_all created have run, every
\* breaker that was registered when reset_all was called is CLOSED,
\* whatever its state was, and a call() entered then is admitted.
C23_ResetAllCloses ==
    [][resets'.done = resets.done + 1 =>
          \A i \in 1..Len(resets.scheduled) :
              LET b == breakers'[resets.scheduled[i]].b
              IN  /\ b.state = CLOSED
                  /\ Admission(b, now').state # OPEN]_vars

\* reset_all has closed an OPEN and a HALF_OPEN breaker, and a call has
\* been made through one of them since
C23_Witness ==
    /\ resets.done = 1
    /\ {OPEN, HALF_OPEN} \subseteq resets.closed_from
    /\ \E name \in DOMAIN breakers :
           /\ breakers[name].b.state = CLOSED
           /\ breakers[name].b.total_failures = cfg.fail_max
           /\ breakers[name].b.total_successes = 1
           /\ breakers[name].b.state_changes = 2

(* ------------- CircuitBreaker: the transitions made by call() ---------- *)
\* C19: as long as no manual override has been asked for, the breaker
\* starts CLOSED and every change of state, under any interleaving of
\* calls, is one of: CLOSED to OPEN by the failure that brings
\* fail_counter to fail_max; OPEN to HALF_OPEN by a call entered after the
\* reset timeout; HALF_OPEN to CLOSED by the success that brings
\* success_counter to success_threshold; HALF_OPEN to OPEN by a failure.
C19_TransitionsByCalls ==
    /\ cb.state = CLOSED
    /\ [][(overrides' = 0 /\ cb'.state # cb.state) =>
             \/ /\ cb.state = CLOSED /\ cb'.state = OPEN
                /\ cb'.total_failures = cb.total_failures + 1
                /\ cb.fail_counter + 1 = cfg.fail_max
                /\ cb'.fail_counter = cfg.fail_max
             \/ /\ cb.state = OPEN /\ cb'.state = HALF_OPEN
                /\ CallMade
                /\ TimeoutElapsed
             \/ /\ cb.state = HALF_OPEN /\ cb'.state = CLOSED
                /\ cb'.total_successes = cb.total_successes + 1
                /\ cb.success_counter + 1 = cfg.success_threshold
             \/ /\ cb.state = HALF_OPEN /\ cb'.state = OPEN
                /\ cb'.total_failures = cb.total_failures + 1]_vars

\* calls alone have opened the breaker, half-opened it and, by the failure
\* of one of two calls in flight, opened it again
C19_Witness ==
    /\ overrides = 0
    /\ cb.state = OPEN
    /\ cb.state_changes = 3
    /\ lastOutcome.result = "raised"
    /\ lastOutcome.pre.state = HALF_OPEN
    /\ ~lastOutcome.alone

\* C20: a call entered while the breaker is OPEN is rejected and changes
\* nothing as long as now - last_failure_time < reset_timeout; the first
\* call entered once the timeout has elapsed makes the transition to
\* HALF_OPEN, adding one to state_changes, and the calls entered after it
\* find the breaker HALF_OPEN and are admitted without a transition, so
\* the transition is made once per open period.
C20_OneResetPerOpenPeriod ==
    [][CallMade =>
          /\ (cb.state = OPEN /\ ~TimeoutElapsed) =>
                 /\ Rejection
                 /\ inflight' = inflight
                 /\ cb' = cb
          /\ (cb.state = OPEN /\ TimeoutElapsed) =>
                 /\ cb'.state = HALF_OPEN
                 /\ cb'.state_changes = cb.state_changes + 1
                 /\ invocations' = invocations + 1
          /\ cb.state # OPEN =>
                 /\ cb' = cb
                 /\ invocations' = invocations + 1]_vars

\* two calls are in flight in one half-open period: the one that made the
\* transition and one entered after it
C20_Witness ==
    /\ overrides = 0
    /\ cb.state = HALF_OPEN
    /\ cb.state_changes = 2
    /\ \E c \in InFlight : c.viaReset /\ c.pre.state = OPEN
    /\ \E c \in InFlight : ~c.viaReset /\ c.pre.state = HALF_OPEN

(* ------------ CircuitBreaker: the counters at a transition ------------- *)
\* the counters of the breaker other than fail_counter and success_counter
Totals(b) ==
    <<b.total_requests, b.total_failures, b.total_successes, b.state_changes>>

NeverDecrease(b0, b1) ==
    \A i \in 1..Len(Totals(b0)) : Totals(b1)[i] >= Totals(b0)[i]

\* C22 as stated: at each of the transitions CLOSED to OPEN, OPEN to
\* HALF_OPEN, HALF_OPEN to CLOSED and HALF_OPEN to OPEN both fail_counter
\* and success_counter are 0 afterwards, and total_requests,
\* total_failures, total_successes and state_changes never decrease.
C22_BothResetAtEveryTransition ==
    [][ /\ <<cb.state, cb'.state>> \in
              {<<CLOSED, OPEN>>, <<OPEN, HALF_OPEN>>, <<HALF_OPEN, CLOSED>>,
               <<HALF_OPEN, OPEN>>}
           => (cb'.fail_counter = 0 /\ cb'.success_counter = 0)
        /\ NeverDecrease(cb, cb') ]_vars

\* C22 amended: at a change of state, by a call or by a manual override,
\* the counters depend on the state entered: entering CLOSED leaves both
\* fail_counter and success_counter 0; entering HALF_OPEN leaves
\* success_counter 0 and fail_counter as it was; entering OPEN resets
\* neither (fail_counter is fail_max when a failure opened a CLOSED
\* breaker, otherwise as it was, and success_counter is as it was).
\* total_requests, total_failures, total_successes and state_changes
\* never decrease.
C22_ResetByStateEntered ==
    [][ /\ cb'.state # cb.state =>
             IF cb'.state = CLOSED
             THEN cb'.fail_counter = 0 /\ cb'.success_counter = 0
             ELSE IF cb'.state = HALF_OPEN
             THEN /\ cb'.success_counter = 0
                  /\ cb'.fail_counter = cb.fail_counter
             ELSE /\ cb'.success_counter = cb.success_counter
                  /\ cb'.fail_counter =
                         IF cb'.total_failures # cb.total_failures
                            /\ cb.state = CLOSED
                         THEN cfg.fail_max ELSE cb.fail_counter
        /\ NeverDecrease(cb, cb') ]_vars

\* a failure has reopened a HALF_OPEN breaker that had counted a success:
\* the breaker is OPEN with both counters above 0
C22_Witness ==
    /\ cb.state = OPEN
    /\ cb.success_counter = 1
    /\ cb.fail_counter = cfg.fail_max
    /\ lastOutcome.result = "raised"
    /\ lastOutcome.pre.state = HALF_OPEN
    /\ overrides = 0

\* C36: in every reachable state of a breaker with fail_max >= 1 and
\* success_threshold >= 1, whatever the interleaving of calls and manual
\* overrides: a CLOSED breaker has fail_counter < fail_max, a HALF_OPEN
\* breaker has success_counter < success_threshold, and total_requests =
\* total_failures + total_successes.
C36_CountersBelowThresholds ==
    /\ cb.state = CLOSED => cb.fail_counter < cfg.fail_max
    /\ cb.state = HALF_OPEN => cb.success_counter < cfg.success_threshold
    /\ cb.total_requests = cb.total_failures + cb.total_successes

\* after a success, a failure and a manual override that has run, the
\* breaker is CLOSED one failure below fail_max = 2
C36_Witness ==
    /\ cfg.fail_max = 2
    /\ cb.state = CLOSED
    /\ cb.fail_counter = 1
    /\ cb.total_successes = 1
    /\ overrides = 1
    /\ pending = <<>>

\* the call()s in flight that the breaker admitted as HALF_OPEN, with no
\* _change_state since: the trial calls of the present HALF_OPEN period
TrialsInFlight ==
    LET Trial(c) ==
            /\ c.pre.state = HALF_OPEN \/ c.viaReset
            /\ cb.state_changes =
                   c.pre.state_changes + (IF c.viaReset THEN 1 ELSE 0)
    IN  BagCardinality([c \in {d \in InFlight : Trial(d)} |-> inflight[c]])

\* C35: while the breaker is HALF_OPEN only a limited number of trial
\* calls is admitted: the calls admitted in one HALF_OPEN period and in
\* flight at the same time are at most success_threshold, however many
\* callers there are.
C35_TrialCallsBounded ==
    cb.state = HALF_OPEN => TrialsInFlight <= cfg.success_threshold

\* a step in which the event loop runs the _change_state(OPEN) task that
\* open() scheduled
ForcedOpen ==
    /\ pending # <<>>
    /\ Head(pending) = OPEN
    /\ pending' = Tail(pending)

\* C37: a breaker forced OPEN by open() recovers like a breaker opened by
\* failures: once the forcing _change_state has run, a call before
\* reset_timeout has elapsed is rejected, and a call made reset_timeout
\* later is admitted as HALF_OPEN, whether or not the breaker has recorded
\* a failure before.
C37_ForcedOpenRecovers ==
    [][ForcedOpen =>
          /\ cfg.reset_timeout > 0 => Admission(cb', now').state = OPEN
          /\ Admission(cb', now' + cfg.reset_timeout).state = HALF_OPEN]_vars

\* C38: only the outcomes of calls admitted in the present HALF_OPEN period
\* count toward closing: when a call that was admitted by the CLOSED
\* breaker, before failures opened it, returns while the breaker is
\* HALF_OPEN, success_counter is not incremented and the breaker stays
\* HALF_OPEN (no manual override involved).
C38_OnlyTrialCallsClose ==
    [][ /\ cb'.total_successes = cb.total_successes + 1
        /\ lastOutcome'.pre.state = CLOSED
        /\ ~lastOutcome'.viaReset
        /\ cb.state = HALF_OPEN
        /\ overrides = 0
        => /\ cb'.success_counter = cb.success_counter
           /\ cb'.state = HALF_OPEN ]_vars

\* a step in which the event loop runs the _change_state(CLOSED) task that
\* close() scheduled
ForcedClosed ==
    /\ pending # <<>>
    /\ Head(pending) = CLOSED
    /\ pending' = Tail(pending)

\* C40: the manual close() leaves the breaker as a fresh one whatever its
\* state was: CLOSED with fail_counter = 0 and success_counter = 0, also
\* when it was CLOSED already with fail_counter > 0; and state_changes
\* grows only in a step that changes the value of state.
C40_CloseLeavesFreshBreaker ==
    [][ /\ ForcedClosed => /\ cb'.state = CLOSED
                           /\ cb'.fail_counter = 0
                           /\ cb'.success_counter = 0
        /\ cb'.state_changes # cb.state_changes => cb'.state # cb.state ]_vars

(* --------------- CircuitBreaker: the writes and self._lock ------------- *)
\* The breaker of Spec with, for every step that writes a field of the
\* breaker, the coroutine that wrote and whether it wrote inside
\* `async with self._lock`.  Acquiring the free lock does not suspend and
\* nothing awaited inside a lock section suspends, so a lock section is
\* one step and the lock is free between steps.
InitLock == Init

\* call(): the lock section, which admits the call or raises
\* CircuitBreakerError
LockedEntry ==
    /\ Ops < MaxOps
    /\ Admission(cb, now).state = OPEN
          \/ BagCardinality(inflight) < MaxInFlight
    /\ cb' = Admission(cb, now)
    /\ started' = started + 1
    /\ lastWrite' = IF cb' # cb THEN WriteBy("call") ELSE lastWrite
    /\ IF cb'.state = OPEN
       THEN UNCHANGED <<inflight, invocations>>
       ELSE /\ inflight' = Put(Disturbed(inflight),
                               [pre |-> cb,
                                viaReset |-> ShouldAttemptReset(cb, now),
                                alone |-> NoneInFlight])
            /\ invocations' = invocations + 1
    /\ UNCHANGED <<cfg, now, pending, overrides, lastOutcome, streak,
                   hoSuccesses, retryVars, monitorVars, monitoringVars,
                   registryVars, discoveryVars, managerVars, alertVars>>

\* call(): the operation returned, _on_success
LockedSuccess(c) ==
    /\ c \in InFlight
    /\ cb' = OnSuccess(cb)
    /\ inflight' = Disturbed(Take(inflight, c))
    /\ lastWrite' = WriteBy("_on_success")
    /\ UNCHANGED <<cfg, now, pending, started, invocations, overrides,
                   lastOutcome, streak, hoSuccesses, retryVars, monitorVars,
                   monitoringVars, registryVars, discoveryVars, managerVars,
                   alertVars>>

\* call(): the operation raised, _on_failure, which returns before the
\* lock for an excluded exception
LockedFailure(c, kind) ==
    /\ c \in InFlight
    /\ cb' = OnFailure(cb, kind, now)
    /\ inflight' = Disturbed(Take(inflight, c))
    /\ lastWrite' = IF IsExcludedException(kind) THEN lastWrite
                    ELSE WriteBy("_on_failure")
    /\ UNCHANGED <<cfg, now, pending, started, invocations, overrides,
                   lastOutcome, streak, hoSuccesses, retryVars, monitorVars,
                   monitoringVars, registryVars, discoveryVars, managerVars,
                   alertVars>>

\* the event loop runs the oldest task made by close() / open() /
\* half_open(): the coroutine is _change_state itself
BareChangeState ==
    /\ pending # <<>>
    /\ cb' = ChangeState(cb, Head(pending))
    /\ pending' = Tail(pending)
    /\ inflight' = Disturbed(inflight)
    /\ lastWrite' = WriteBy("_change_state")
    /\ UNCHANGED <<cfg, now, started, invocations, overrides, lastOutcome,
                   streak, hoSuccesses, retryVars, monitorVars,
                   monitoringVars, registryVars, discoveryVars, managerVars,
                   alertVars>>

NextLock ==
    \/ Tick
    \/ LockedEntry
    \/ \E c \in InFlight : LockedSuccess(c)
    \/ \E c \in InFlight, kind \in BreakerKinds : LockedFailure(c, kind)
    \/ \E target \in CircuitBreakerState : ManualOverride(target)
    \/ BareChangeState

SpecLock == InitLock /\ [][NextLock]_vars

\* C21: every write to the state and the counters of a breaker, by the
\* outcome of a call() or by a manual open / close / half_open, is made by
\* a coroutine that holds the lock of the breaker.
C21_WritesUnderLock == lastWrite.locked

(* ------------------- check loop and probe loop, fair ------------------- *)
\* The monitor and the registry side by side, each with its loop.  A loop
\* is suspended in asyncio.sleep between two cycles; the sleep ends and
\* the event loop resumes the task, which is what the fairness conditions
\* of SpecLoops say.  The health-check function, the alert handlers and
\* the probes raise exceptions of class Exception.  The monitor is started
\* and left running (stop_monitoring is the subject of SpecMonitor); the
\* registry looks up one service and is closed, which cancels its probe
\* loop.
InitLoops ==
    /\ BreakerIdle
    /\ RetryIdle
    /\ ServicesIdle

\* outcomes of health_check_func in a cycle
CheckOutcomes == {"dict_healthy", "raises"}

\* _perform_health_check on one outcome of health_check_func
PerformHealthCheck(m, c, outcome) ==
    IF outcome = "raises"
    THEN HealthCheckRaises(m)
    ELSE HealthCheckReturns(m, c, outcome, FALSE)

\* _monitoring_loop of task t runs one cycle in which every alert handler
\* raises on every alert: _send_alert logs the exception and goes on, so
\* the cycle ends as it does with handlers that return
LoopCheckHandlerRaises(t, outcome) ==
    /\ t \in LiveLoops
    /\ running
    /\ check.cycle < MaxCycles
    /\ LET r == PerformHealthCheck(metrics, mcfg, outcome)
       IN  /\ r.alerts # <<>>
           /\ metrics' = r.metrics
           /\ check' = Checked(check, r)
    /\ UNCHANGED <<notMonitor, mcfg, running,
                   monitoring_task, loops, stops, quiesced>>

\* _health_check_loop of task t ends one round, counted
CountedProbeRound(t, results) ==
    /\ rounds < MaxRounds
    /\ Probed(t, results)
    /\ rounds' = rounds + 1
    /\ probed' = [service |-> probes[t].service, results |-> results,
                  before |-> CachedEndpoints(probes[t].service)]
    /\ UNCHANGED lookups

\* a check loop wakes up from its sleep and runs a cycle
CheckCycle ==
    \E t \in LiveLoops :
        \/ LoopCheckReturns(t, "dict_healthy", FALSE)
        \/ LoopCheckRaises(t)
        \/ \E outcome \in CheckOutcomes : LoopCheckHandlerRaises(t, outcome)

\* a probe loop wakes up from its sleep and runs a round
ProbeCycle ==
    \E t \in 1..Len(probes) :
        \E results \in [1..Len(CachedEndpoints(probes[t].service)) ->
                           {"up", "down", "error"}] :
            CountedProbeRound(t, results)

NextLoops ==
    \/ StartMonitoring
    \/ CheckCycle
    \/ GetHealthyEndpoints("redis")
    \/ \E t \in 1..Len(probes) : ProbeExit(t)
    \/ CloseRegistry
    \/ CloseReturn
    \/ ProbeCycle

SpecLoops ==
    /\ InitLoops
    /\ [][NextLoops]_vars
    /\ WF_vars(CheckCycle)
    /\ WF_vars(ProbeCycle)

\* the monitor has been started and not stopped, and a check loop of it
\* has been neither cancelled nor ended by a stop
LoopScheduled ==
    /\ running
    /\ \E t \in 1..Len(loops) : loops[t] \notin {"cancelled", "done"}

\* a probe loop has been started and not cancelled
ProbeScheduled ==
    \E t \in 1..Len(probes) : probes[t].state \notin {"cancelled", "done"}

\* C30: an exception raised by the health-check function, by an alert
\* handler or by a probe does not end the check loop or the probe loop:
\* while a check loop is scheduled (started, not stopped or cancelled)
\* another check cycle is eventually run, whatever the cycles before it
\* raised, and while a probe loop is scheduled another probe round is
\* eventually run.
C30_LoopsSurviveExceptions ==
    /\ \A k \in 0..(MaxCycles - 1) :
           (LoopScheduled /\ check.cycle = k)
               ~> (check.cycle > k \/ ~LoopScheduled)
    /\ \A k \in 0..(MaxRounds - 1) :
           (ProbeScheduled /\ rounds = k)
               ~> (rounds > k \/ ~ProbeScheduled)

\* a cycle whose health check raised has been followed by another cycle of
\* a loop that is still scheduled, and a probe round by another round
C30_Witness ==
    /\ LoopScheduled
    /\ check.prev_raised
    /\ check.cycle >= 2
    /\ ProbeScheduled
    /\ rounds >= 2
    /\ \E i \in 1..Len(endpoints["redis"]) : ~endpoints["redis"][i].healthy

(* ---------------------------- ServiceRegistry, probe rounds recorded *)

\* The registry with weights left at 1 (a probe round does not read
\* them): services are looked up and their probe loops run rounds, each
\* round recorded with the results of its probes and the endpoints it
\* found.
InitProbe ==
    /\ InitRegistry
    /\ \A i \in 1..Len(endpoints["redis"]) : endpoints["redis"][i].weight = 1

NextProbe ==
    \/ \E s \in RegistryServices : GetHealthyEndpoints(s)
    \/ ProbeCycle

SpecProbe == InitProbe /\ [][NextProbe]_vars

\* C32: a probe round sets the healthy flag of every cached endpoint of its
\* service from the outcome of that endpoint's probe: false when the probe
\* raised, the returned value when it returned.  The round leaves the
\* cached list with the endpoints it had, in their order, and the other
\* service's list as it was; an endpoint that was unhealthy before the
\* round and whose probe returned true is healthy after it.
C32_RoundSetsFlagsKeepsList ==
    [][rounds' = rounds + 1 =>
          LET s == probed'.service
              res == probed'.results
          IN  /\ s \in cached
              /\ cached' = cached
              /\ probed'.before = endpoints[s]
              /\ Len(endpoints'[s]) = Len(endpoints[s])
              /\ Len(res) = Len(endpoints[s])
              /\ \A i \in 1..Len(endpoints[s]) :
                     /\ endpoints'[s][i].weight = endpoints[s][i].weight
                     /\ res[i] = "error" => ~endpoints'[s][i].healthy
                     /\ res[i] = "up" => endpoints'[s][i].healthy
                     /\ res[i] = "down" => ~endpoints'[s][i].healthy
              /\ \A o \in RegistryServices \ {s} :
                     endpoints'[o] = endpoints[o]]_vars

\* after its second round an endpoint that the round before had marked
\* unhealthy, because its probe raised, is healthy again and still in the
\* cached list, next to an endpoint whose probe raised in this round
C32_Witness ==
    /\ rounds = 2
    /\ probed.service = "redis"
    /\ Len(endpoints["redis"]) = 2
    /\ ~probed.before[1].healthy
    /\ probed.results = <<"up", "error">>
    /\ endpoints["redis"][1].healthy
    /\ ~endpoints["redis"][2].healthy

(* ------------------- ServiceRegistry, lookups that overlap in discovery *)

\* get_healthy_endpoints awaits _refresh_endpoints when the service is
\* not cached, so a call is two steps here: it suspends in discovery and
\* resumes when discovery has returned or raised (_refresh_endpoints
\* catches the exception and leaves the cache as it was).  Other calls and
\* probe rounds run in between.  From the resumption to the return
\* statement nothing is awaited.  get_best_endpoint awaits
\* get_healthy_endpoints and changes no state of the registry after it, so
\* a call stands for either of them; what get_best_endpoint returns is the
\* subject of SpecRegistry.  close() is not called.
InitLookup == InitProbe

\* a call for a service that is cached: no await before the return
CachedLookup(s) ==
    /\ s \in cached
    /\ StartHealthCheck(s)
    /\ lookups' = [lookups EXCEPT ![s].called = TRUE]
    /\ UNCHANGED <<notRegistry, rounds, probed, endpoints, cached, closing,
                   best>>

\* a call for a service that is not cached suspends in _refresh_endpoints
BeginLookup(s) ==
    /\ s \notin cached
    /\ lookups[s].pending < MaxOverlap
    /\ lookups' = [lookups EXCEPT ![s] =
                      [pending |-> @.pending + 1, called |-> TRUE]]
    /\ UNCHANGED <<notRegistry, rounds, probed, endpoints, cached,
                   health_check_tasks, probes, closing, best>>

\* a suspended call resumes: discovery has returned the endpoints (found)
\* or raised, and the probe loop is started if the service has none
ResumeLookup(s, found) ==
    /\ lookups[s].pending > 0
    /\ cached' = IF found THEN cached \cup {s} ELSE cached
    /\ StartHealthCheck(s)
    /\ lookups' = [lookups EXCEPT ![s].pending = @ - 1]
    /\ UNCHANGED <<notRegistry, rounds, probed, endpoints, closing, best>>

NextLookup ==
    \/ \E s \in RegistryServices : CachedLookup(s)
    \/ \E s \in RegistryServices : BeginLookup(s)
    \/ \E s \in RegistryServices : \E found \in BOOLEAN :
           ResumeLookup(s, found)
    \/ \E t \in 1..Len(probes) :
           \E results \in [1..Len(CachedEndpoints(probes[t].service)) ->
                              {"up", "down", "error"}] :
               ProbeRound(t, results)

SpecLookup == InitLookup /\ [][NextLookup]_vars

\* the probe loops of service s that have not finished
ProbeLoopsOf(s) == {t \in RunningProbes : probes[t].service = s}

\* C33: a service that no get_healthy_endpoints or get_best_endpoint call
\* has asked for has no probe loop, and a service never has more than one
\* probe loop, however the calls for it interleave, calls suspended in
\* discovery at the same time included.
C33_AtMostOneProbeLoop ==
    \A s \in RegistryServices :
        /\ ~lookups[s].called => ProbeLoopsOf(s) = {}
        /\ Cardinality(ProbeLoopsOf(s)) <= 1

\* a call for redis is still suspended in discovery while another call
\* that had been suspended with it has resumed, filled the cache and
\* started the probe loop; the other service has not been asked for
C33_Witness ==
    /\ lookups["redis"].pending >= 1
    /\ "redis" \in cached
    /\ Cardinality(ProbeLoopsOf("redis")) = 1
    /\ ~lookups["database"].called

====
